---- MODULE Spec2Model ----
(***************************************************************************)
(* Model of the log-parsing and rule-evaluation engine of                  *)
(* src-tauri/src/analysis.rs: the three status extractors                  *)
(* (parse_rust_log_file, parse_rust_log_single_line, parse_nextest_log),   *)
(* status_lookup and generate_analysis_result.                             *)
(*                                                                         *)
(* A log text is a sequence of lines.  A line is a record                  *)
(* [k |-> kind, n |-> test name, s |-> status word]; each kind stands for  *)
(* one concrete line shape, and the regular expressions of analysis.rs     *)
(* are tabulated on these shapes (N is the name, S the status word):       *)
(*   result  "test N ... S"                                                *)
(*   mixed   "test N ... S (took 1s)"                                      *)
(*   start   "test N ..."                                                  *)
(*   diag    "test N ... error: E0432 unresolved import"                   *)
(*   starto  "test N ... o"                                                *)
(*   ansi    "test N ... <ESC>[32mS<ESC>[0m"                               *)
(*   word    "S"                                                           *)
(*   o       "o"            k  "k"                                         *)
(*   banner  "failures:"                                                   *)
(*   indent  "    N"                                                       *)
(*   blank   ""                                                            *)
(*   sep     "---- N stdout ----"                                          *)
(*   errline "error: test failed, to rerun pass `--lib`"                   *)
(*   summary "test result: FAILED. 1 passed; 1 failed; 0 ignored; 0        *)
(*            measured; 0 filtered out; finished in 0.00s"                 *)
(*   noise   "running 2 tests"                                             *)
(*   panic   "thread 'N' panicked at src/lib.rs:1:1:"                      *)
(*   log     "debug: handler returned S"                                   *)
(*   ui      "tests/ui/N.rs ... S"                                         *)
(*   nxpass  "PASS [   0.010s] crate N"   (nxfail: FAIL, nxskip: SKIP)     *)
(* Test names stand for module paths without white space ("a" is m::ta,    *)
(* "b" is m::tb): five characters, containing "::".                        *)
(***************************************************************************)
EXTENDS Integers, Sequences, FiniteSets, TLC

VARIABLES
    pc,            \* position of analyze_logs
    pass_to_pass,  \* manifest list PASS_TO_PASS
    fail_to_pass,  \* manifest list FAIL_TO_PASS
    base_parsed,   \* ParsedLog of the base log
    before_parsed, \* ParsedLog of the before log
    after_parsed,  \* ParsedLog of the after log
    analysis,      \* value returned by generate_analysis_result
    ppc,           \* position of the extractor
    lines,         \* content.lines() of the log being parsed
    strategy,      \* extraction strategy selected for the log
    passed,        \* extractor's passed set
    failed,        \* extractor's failed set
    ignored,       \* extractor's ignored set
    all,           \* extractor's all set
    dpc,           \* position of detect_same_file_duplicates
    raw_content,   \* raw_content.split('\n') of the log scanned for duplicates
    per_file,      \* occurrences collected per file context
    out,           \* duplicate groups reported
    mpc,           \* position of merge_chunk_results
    chunk_results, \* chunk results still to be merged
    test_status_map, \* merged status per test name
    final_results, \* value returned by merge_chunk_results
    file_paths,    \* paths handed to analyze_logs
    fs,            \* content of the file system, per path
    agent_parsed,  \* Option<ParsedLog> of the agent log
    report_data,   \* Option<Value> parsed from report.json
    err,           \* Err(message) returned by analyze_logs, if any
    cpc,           \* position of chunk_log_content
    log_content,   \* bytes of the log handed to chunk_log_content
    chunk_size,    \* chunk_size handed to chunk_log_content
    start,         \* start of the next chunk
    log_chunks,    \* chunks pushed so far (the vector chunks)
    opc,           \* position of analyze_log_with_openai
    chunk_index,   \* index i of the chunk being processed
    retry_count,   \* retry_count of the chunk being processed
    all_chunk_results, \* results of the chunks processed
    attempts,      \* calls of process_log_chunk made, <<chunk index, outcome>>
    output_file,   \* content of the file at output_path, if written
    ai_result,     \* value returned by analyze_log_with_openai
    vpc,           \* position of validate_deliverable
    folder_link,   \* the link handed to validate_deliverable
    tokens_file,   \* the file at tokens_path()
    target,        \* what Drive holds under the folder ID of the link
    folder_id,     \* Option: folder ID extracted from the link
    instance_json_name, \* "{instance_name}.json"
    folder_files,  \* listing of the deliverable folder (files)
    log_files,     \* listing of the logs folder
    files_to_download, \* files collected for download
    validation     \* value returned by validate_deliverable

vars == <<pc, pass_to_pass, fail_to_pass, base_parsed, before_parsed,
          after_parsed, analysis, ppc, lines, strategy, passed, failed,
          ignored, all, dpc, raw_content, per_file, out, mpc, chunk_results,
          test_status_map, final_results, file_paths, fs, agent_parsed,
          report_data, err, cpc, log_content, chunk_size, start, log_chunks,
          opc, chunk_index, retry_count, all_chunk_results, attempts,
          output_file, ai_result, vpc, folder_link, tokens_file, target, folder_id, instance_json_name,
          folder_files, log_files, files_to_download, validation>>

avars == <<pc, pass_to_pass, fail_to_pass, base_parsed, before_parsed,
           after_parsed, analysis>>

pvars == <<ppc, lines, strategy, passed, failed, ignored, all>>

dvars == <<dpc, raw_content, per_file, out>>

mvars == <<mpc, chunk_results, test_status_map, final_results>>

rvars == <<file_paths, fs, agent_parsed, report_data, err>>

cvars == <<cpc, log_content, chunk_size, start, log_chunks>>

ovars == <<opc, chunk_index, retry_count, all_chunk_results, attempts,
           output_file, ai_result>>

gvars == <<vpc, folder_link, tokens_file, target, folder_id,
           instance_json_name, folder_files, log_files, files_to_download,
           validation>>

\* the state of the helpers around the analysis: chunking, the language
\* model analysis and the validation of a deliverable
xvars == <<cvars, ovars, gvars>>

Names == {"a", "b"}

StatusWords == {"ok", "FAILED", "ignored", "error"}

None == "-"

\* Option values: None and Some(x)
NoneOpt == << >>

Some(x) == <<x>>

L(k, n, s) == [k |-> k, n |-> n, s |-> s]

\* status.to_lowercase() of a captured status word
to_lowercase(s) == IF s = "FAILED" THEN "failed" ELSE s

(***************************************************************************)
(* Regular expressions, tabulated on the line shapes.                      *)
(***************************************************************************)

\* (?i)\btest\s+(.+?)\s+\.\.\.\s+(ok|FAILED|ignored|error)\s*$
TEST_LINE_RE(l) == l.k = "result"

\* (?i)\btest\s+(.+?)\s+\.\.\.\s+(ok|FAILED|ignored|error)\s+(.+)
TEST_MIXED_FORMAT_RE(l) == l.k = "mixed"


\* (?i)\btest\s+(.+?)\s+\.\.\.\s*(.*?)$
TEST_START_RE(l) == l.k \in {"result", "mixed", "start", "diag", "starto", "ansi"}

\* STATUS_RE.is_match(remainder), remainder being group 2 of TEST_START_RE:
\* (?i)\b(ok|failed|ignored|error)\b.  The remainder of an ansi line is
\* "<ESC>[32mS<ESC>[0m", where S follows the letter m without a word boundary.
STATUS_RE_remainder(l) == l.k \in {"result", "mixed", "diag"}

\* remainder.trim(): starts_with("error:") || is_empty()
remainder_is_diagnostic(l) == l.k \in {"diag", "start"}

\* (?i)\b(ok|failed|ignored|error)\s*$
STATUS_AT_END_RE(l) == l.k \in {"result", "word", "log", "ui"}

\* (?i)^(ok|FAILED|ignored|error)
STATUS_AT_START_RE(l) == l.k \in {"word", "errline"}

\* (?i)\btest\s+[^\s]+\s+\.\.\.\s*
ANOTHER_TEST_RE(l) == l.k \in {"result", "mixed", "start", "diag", "starto", "ansi"}

\* (?i)\btest\s+([^\s]+(?:::\w+)*)\s+\.\.\.\s*o\s*$
TEST_WITH_O_RE(l) == l.k = "starto"

\* (?i)\btest\s+([^\s]+(?:::\w+)*)\s+\.\.\.\s*
TEST_STARTS_RE(l) == l.k \in {"result", "mixed", "start", "diag", "starto", "ansi"}

\* (?i)(?:line)?test\s+([^\s]+(?:::\w+)*)\s+\.\.\.\s*
CORRUPTED_TEST_LINE_RE(l) == l.k \in {"result", "mixed", "start", "diag", "starto", "ansi"}

\* ^\s{4}(.+?)\s*$
FAILURES_BLOCK_RE(l) == l.k = "indent"

\* stripped.eq_ignore_ascii_case("ok" | "FAILED" | "ignored" | "error")
standalone_status(l) == l.k = "word"

\* length of a status word
WordLen(s) == CASE s = "ok" -> 2 [] s = "FAILED" -> 6 [] s = "ignored" -> 7
                [] s = "error" -> 5 [] OTHER -> 0

\* number of characters of a line (test names have five characters)
LineLen(l) ==
    CASE l.k = "result"  -> 15 + WordLen(l.s)
      [] l.k = "mixed"   -> 25 + WordLen(l.s)
      [] l.k = "ansi"    -> 24 + WordLen(l.s)
      [] l.k = "word"    -> WordLen(l.s)
      [] l.k = "log"     -> 24 + WordLen(l.s)
      [] l.k = "ui"      -> 22 + WordLen(l.s)
      [] l.k = "start"   -> 14
      [] l.k = "diag"    -> 45
      [] l.k = "starto"  -> 16
      [] l.k \in {"o", "k"} -> 1
      [] l.k = "banner" -> 9
      [] l.k = "indent" -> IF l.n = " a" THEN 10 ELSE 9
      [] l.k = "blank"   -> 0
      [] l.k = "sep"     -> 22
      [] l.k = "errline" -> 41
      [] l.k = "summary" -> 97
      [] l.k = "noise"   -> 15
      [] l.k = "panic"   -> 42
      [] l.k \in {"nxpass", "nxfail", "nxskip"} -> 28
      [] OTHER -> 0

\* matches of STATUS_IN_TEXT_RE, (?i)\b(ok|failed|ignored|error)\b, in a
\* line: <<offset in the line, lower-cased status>>, left to right
StatusTokens(l) ==
    CASE l.k \in {"result", "mixed"} -> << <<15, to_lowercase(l.s)>> >>
      [] l.k = "word"    -> << <<0, to_lowercase(l.s)>> >>
      [] l.k = "log"     -> << <<24, to_lowercase(l.s)>> >>
      [] l.k = "ui"      -> << <<22, to_lowercase(l.s)>> >>
      [] l.k = "diag"    -> << <<15, "error">> >>
      [] l.k = "errline" -> << <<0, "error">>, <<12, "failed">> >>
      [] l.k = "summary" -> << <<13, "failed">>, <<33, "failed">>, <<43, "ignored">> >>
      [] OTHER -> << >>

\* occurrences in the lower-cased line of the diagnostic phrases "error:",
\* "panic", "custom", "called `result::unwrap()", "thread", "kind:":
\* <<offset in the line, length, phrase>>
DiagnosticMarks(l) ==
    CASE l.k = "diag"    -> { <<15, 6, "error:">> }
      [] l.k = "errline" -> { <<0, 6, "error:">> }
      [] l.k = "panic"   -> { <<0, 6, "thread">>, <<15, 5, "panic">> }
      [] OTHER -> {}

\* line_lower contains "logging at" | "debug:" | "trace:" | "info:" | "warn:"
logging_output(l) == l.k = "log"

Min2(x, y) == IF x < y THEN x ELSE y

Max2(x, y) == IF x > y THEN x ELSE y

SetMax(S) == CHOOSE x \in S : \A y \in S : y <= x

SetMin(S) == CHOOSE x \in S : \A y \in S : x <= y

\* lines[i] with the 0-based index of the code
At(ls, i) == ls[i + 1]

(***************************************************************************)
(* The status sets of an extraction in progress.                           *)
(***************************************************************************)
EmptySets == [passed |-> {}, failed |-> {}, ignored |-> {}]

\* passed.contains(n) || failed.contains(n) || ignored.contains(n)
Classified(S, n) == n \in S.passed \cup S.failed \cup S.ignored

\* process_test_status (analysis.rs 1064..1080) and the equal match blocks
\* inlined in the extractors: the status word selects the set
process_test_status(S, status, n) ==
    CASE status = "ok" -> [S EXCEPT !.passed = @ \cup {n}]
      [] status \in {"failed", "error"} -> [S EXCEPT !.failed = @ \cup {n}]
      [] status = "ignored" -> [S EXCEPT !.ignored = @ \cup {n}]
      [] OTHER -> S

(***************************************************************************)
(* Standard strategy, parse_rust_log_file.                                 *)
(***************************************************************************)

\* First pass: direct match of TEST_LINE_RE, else TEST_MIXED_FORMAT_RE
RECURSIVE FirstPass(_, _, _)
FirstPass(ls, S, i) ==
    IF i >= Len(ls) THEN S
    ELSE LET l == At(ls, i) IN
         IF TEST_LINE_RE(l) \/ TEST_MIXED_FORMAT_RE(l)
         THEN FirstPass(ls, process_test_status(S, to_lowercase(l.s), l.n), i + 1)
         ELSE FirstPass(ls, S, i + 1)

\* Second pass, first loop: the names line i puts into pending_tests
PendingAt(ls, S, i) ==
    LET l == At(ls, i)
        skipped == TEST_START_RE(l) /\ Classified(S, l.n)
    IN  (IF TEST_START_RE(l) /\ ~skipped /\ ~STATUS_RE_remainder(l)
         THEN {l.n} ELSE {})
        \cup
        (IF ~skipped /\ CORRUPTED_TEST_LINE_RE(l) /\ ~Classified(S, l.n)
         THEN {l.n} ELSE {})

\* pending_tests: name -> index of the last line that inserted it
pending_tests(ls, S) ==
    LET names == UNION {PendingAt(ls, S, i) : i \in 0..(Len(ls) - 1)}
    IN  [n \in names |->
            SetMax({i \in 0..(Len(ls) - 1) : n \in PendingAt(ls, S, i)})]

\* is_diagnostic_error: status "error" on a line holding a diagnostic phrase
is_diagnostic_error(status, l) ==
    status = "error" /\ DiagnosticMarks(l) # {}

\* is_status_in_diagnostic_context: "error:" or "panic" before the first
\* occurrence of the status word ("value:" and "kind:" occur after it in
\* none of the line shapes)
is_status_in_diagnostic_context(status, l) ==
    LET toks == StatusTokens(l)
        occ  == {k \in 1..Len(toks) : toks[k][2] = status}
    IN  /\ occ # {}
        /\ LET pos == toks[SetMin(occ)][1]
           IN  \E m \in DiagnosticMarks(l) :
                  m[3] \in {"error:", "panic"} /\ m[1] + m[2] <= pos

\* has_panic_evidence: a line "thread 'NAME' ... panicked at" in
\* lines[search_start..search_end]
has_panic_evidence(name, ls, search_start, search_end) ==
    \E j \in search_start..(search_end - 1) :
        At(ls, j).k = "panic" /\ At(ls, j).n = name

\* the status captured by STATUS_AT_END_RE, else by STATUS_AT_START_RE
status_match(l) ==
    IF STATUS_AT_END_RE(l) THEN to_lowercase(l.s)
    ELSE IF l.k = "errline" THEN "error" ELSE to_lowercase(l.s)

initial_limit == 200

extended_limit == 10000

\* One lookahead window of the second pass: the status found for the pending
\* test in lines[j..hi), None when the window ends or breaks without one.
\* The loop ends at the first line that gives a status it accepts or that
\* starts another test past the leeway
Lookahead(ls, name, start_line, j, hi, leeway) ==
    LET \* one turn of the loop at line i: Some(x) when it ends the loop with
        \* x, NoneOpt when it goes on to the next line
        turn(i) ==
            LET l == At(ls, i) IN
            IF standalone_status(l) THEN Some(to_lowercase(l.s))
            ELSE IF STATUS_AT_END_RE(l) \/ STATUS_AT_START_RE(l)
            THEN LET status == status_match(l) IN
                 IF \/ is_diagnostic_error(status, l)
                    \/ is_status_in_diagnostic_context(status, l)
                    \/ /\ status \in {"failed", "error"}
                       /\ logging_output(l)
                       /\ ~has_panic_evidence(name, ls, Max2(0, start_line - 100),
                                              Min2(i + 1, Len(ls)))
                 THEN NoneOpt
                 ELSE Some(status)
            ELSE IF ANOTHER_TEST_RE(l) /\ i > start_line + leeway THEN Some(None)
            ELSE NoneOpt
        \* what the first turn that ends the loop ends it with
        first_end(turns) ==
            LET stops == {i \in DOMAIN turns : turns[i] # NoneOpt}
            IN  IF stops = {} THEN None ELSE turns[SetMin(stops)][1]
    IN  first_end([i \in j..(hi - 1) |-> turn(i)])

\* deferred_status with an extended window that runs to the end of the log
deferred_status_unbounded(ls, name, start_line) ==
    LET n1 == Lookahead(ls, name, start_line, start_line + 1,
                        Min2(start_line + initial_limit, Len(ls)), 5)
    IN  IF n1 # None THEN n1
        ELSE Lookahead(ls, name, start_line,
                       Min2(start_line + initial_limit, Len(ls)), Len(ls), 50)

\* the status the deferred lookahead gives a pending test: normal window,
\* then the extended window when the normal one found nothing
deferred_status(ls, name, start_line) ==
    LET n1 == Lookahead(ls, name, start_line, start_line + 1,
                        Min2(start_line + initial_limit, Len(ls)), 5)
    IN  IF n1 # None THEN n1
        ELSE Lookahead(ls, name, start_line,
                       Min2(start_line + initial_limit, Len(ls)),
                       Min2(start_line + extended_limit, Len(ls)), 50)

\* Second pass: every pending test takes the status its lookahead finds
RECURSIVE SecondPassOver(_, _, _, _)
SecondPassOver(ls, S, pend, todo) ==
    IF todo = {} THEN S
    ELSE LET n == CHOOSE x \in todo : TRUE
             st == deferred_status(ls, n, pend[n])
         IN  SecondPassOver(ls, process_test_status(S, st, n), pend, todo \ {n})

SecondPass(ls, S) ==
    LET pend == pending_tests(ls, S)
    IN  SecondPassOver(ls, S, pend, DOMAIN pend)

\* Third pass, first branch: the test a split "o" / "k" pair at lines i, i+1
\* belongs to, the nearest "test NAME ... o" line within the 10 lines above
split_owner(ls, i) ==
    LET back == {j \in Max2(0, i - 10)..(i - 1) : TEST_WITH_O_RE(At(ls, j))}
    IN  IF back = {} THEN None ELSE At(ls, SetMax(back)).n

\* Third pass: split-token repair
RECURSIVE ThirdPass(_, _, _)
ThirdPass(ls, S, i) ==
    IF i >= Len(ls) THEN S
    ELSE LET l == At(ls, i)
             next_is_k == i + 1 < Len(ls) /\ At(ls, i + 1).k = "k"
             o == IF l.k = "o" /\ next_is_k THEN split_owner(ls, i) ELSE None
             S1 == IF o # None /\ ~Classified(S, o)
                   THEN [S EXCEPT !.passed = @ \cup {o}] ELSE S
             S2 == IF TEST_WITH_O_RE(l) /\ next_is_k /\ ~Classified(S1, l.n)
                   THEN [S1 EXCEPT !.passed = @ \cup {l.n}] ELSE S1
         IN  ThirdPass(ls, S2, i + 1)

\* Fourth pass: index of the last line pushed to search_text for the test
\* start at line_idx (at most 100 lines, a later test start after 5 lines of
\* grace ends the block)
search_end(ls, line_idx) ==
    LET hi == Min2(line_idx + 100, Len(ls)) - 1
        stops == {j \in line_idx..hi : j > line_idx + 5 /\ TEST_STARTS_RE(At(ls, j))}
    IN  IF stops = {} THEN hi ELSE SetMin(stops)

\* offset in search_text of line j: the number of characters pushed for the
\* lines from..j-1, <<k, c>> being character c of line k and the '\n' pushed
\* after each line the character past its end
text_offset(ls, from, j) ==
    Cardinality(UNION {{k} \X (0..LineLen(At(ls, k))) : k \in from..(j - 1)})

\* length of a lower-cased status word
StatusLen(st) == CASE st = "ok" -> 2 [] st = "failed" -> 6 [] st = "ignored" -> 7
                   [] st = "error" -> 5 [] OTHER -> 0

\* a diagnostic phrase lies in text[lo..hi) of the text made of lines from..to
diagnostic_in_context(ls, from, to, lo, hi) ==
    \E j \in from..to : \E m \in DiagnosticMarks(At(ls, j)) :
        /\ text_offset(ls, from, j) + m[1] >= lo
        /\ text_offset(ls, from, j) + m[1] + m[2] <= hi

\* status_matches of the broad rescan and of the windowed lookahead:
\* <<match_start, status>> of every match of STATUS_IN_TEXT_RE in the slice
\* [wstart, wend) of the text made of lines from..to, but for "error" inside
\* a diagnostic context of 50 characters to each side (within the slice)
status_matches(ls, from, to, wstart, wend) ==
    LET cand == UNION {
            { <<text_offset(ls, from, j) + StatusTokens(At(ls, j))[k][1],
                StatusTokens(At(ls, j))[k][2]>> :
              k \in 1..Len(StatusTokens(At(ls, j))) } : j \in from..to }
    IN  { c \in cand :
            /\ c[1] >= wstart
            /\ c[1] + StatusLen(c[2]) <= wend
            /\ ~(c[2] = "error" /\
                 diagnostic_in_context(ls, from, to, Max2(wstart, c[1] - 50),
                                       Min2(c[1] + 50, wend))) }

\* status_matches.last()
last_status(ms) ==
    IF ms = {} THEN None
    ELSE (CHOOSE c \in ms : \A d \in ms : d[1] <= c[1])[2]

\* Fourth pass, one test start: the last status word in search_text
rescan_status(ls, line_idx) ==
    last_status(status_matches(ls, line_idx, search_end(ls, line_idx), 0,
                               text_offset(ls, line_idx, search_end(ls, line_idx) + 1)))

\* Fourth pass: broad rescan. The test starts at or below line i are
\* collected first (test_starts), then gone through in line order
FourthPass(ls, S, i) ==
    LET RECURSIVE Over(_, _)
        Over(T, test_starts) ==
            IF test_starts = {} THEN T
            ELSE LET line_idx == SetMin(test_starts)
                     test_name == At(ls, line_idx).n
                 IN  Over(IF Classified(T, test_name) THEN T
                          ELSE process_test_status(T, rescan_status(ls, line_idx), test_name),
                          test_starts \ {line_idx})
    IN  Over(S, {j \in i..(Len(ls) - 1) : TEST_STARTS_RE(At(ls, j))})

\* Fifth pass, inner loop: the standalone status word found in
\* lines[j..hi) before any other test line
RECURSIVE final_status(_, _, _)
final_status(ls, j, hi) ==
    IF j >= hi THEN None
    ELSE LET l == At(ls, j) IN
         IF TEST_START_RE(l) THEN None
         ELSE IF standalone_status(l) THEN to_lowercase(l.s)
         ELSE final_status(ls, j + 1, hi)

\* Fifth pass: diagnostic output followed by a status on a line of its own
RECURSIVE FifthPass(_, _, _)
FifthPass(ls, S, i) ==
    IF i >= Len(ls) THEN S
    ELSE LET l == At(ls, i) IN
         IF TEST_START_RE(l) /\ ~Classified(S, l.n) /\ remainder_is_diagnostic(l)
         THEN LET st == final_status(ls, i + 1, Min2(i + 50, Len(ls)))
              IN  FifthPass(ls, process_test_status(S, st, l.n), i + 1)
         ELSE FifthPass(ls, S, i + 1)

\* The "failures:" block scan
RECURSIVE FailuresBlock(_, _, _, _)
FailuresBlock(ls, S, collecting, i) ==
    IF i >= Len(ls) THEN S
    ELSE LET l == At(ls, i) IN
         IF l.k = "banner" THEN FailuresBlock(ls, S, TRUE, i + 1)
         ELSE IF ~collecting THEN FailuresBlock(ls, S, FALSE, i + 1)
         ELSE IF l.k \in {"errline", "summary"}
              THEN FailuresBlock(ls, S, FALSE, i + 1)
         ELSE IF FAILURES_BLOCK_RE(l)
              THEN FailuresBlock(ls, [S EXCEPT !.failed = @ \cup {l.n}], TRUE, i + 1)
         ELSE IF l.k \in {"blank", "sep"}
              THEN FailuresBlock(ls, S, TRUE, i + 1)
         ELSE FailuresBlock(ls, S, FALSE, i + 1)

\* the name TEST_LINE_RE captures from the line "test " NAME " ... " STATUS:
\* \s+ after "test" takes the white space a name begins with
test_line_name(n) == IF n = " a" THEN "a" ELSE n

\* the status sets of parse_rust_log_file on a Standard log
parse_standard(ls) ==
    LET S1 == FirstPass(ls, EmptySets, 0)
        S2 == SecondPass(ls, S1)
        S3 == ThirdPass(ls, S2, 0)
        S4 == FourthPass(ls, S3, 0)
        S5 == FifthPass(ls, S4, 0)
    IN  FailuresBlock(ls, S5, FALSE, 0)

(***************************************************************************)
(* Nextest strategy, parse_nextest_log.                                    *)
(***************************************************************************)

\* NEXTEST_PASS_RE, NEXTEST_FAIL_RE, NEXTEST_SKIP_RE on a line
NEXTEST_PASS_RE(l) == l.k = "nxpass"

NEXTEST_FAIL_RE(l) == l.k = "nxfail"

NEXTEST_SKIP_RE(l) == l.k = "nxskip"

\* extract_test_name_from_nextest_line on the capture <<crate, test part>> of
\* a nextest line: the crate token has no "::" and the test part has one, so
\* the crate prefix is removed
extract_test_name_from_nextest_line(cap) == cap[2]

\* (?i)\btest\s+([^\s]+(?:::[^\s]+)*)\s*\.{2,}\s*(ok|FAILED|ignored|error)
\* on one line: the status may be the first word of trailing text
ENH_TEST_RE_1(l) == l.k \in {"result", "mixed", "diag"}

ENH_status(l) == IF l.k = "diag" THEN "error" ELSE to_lowercase(l.s)

RECURSIVE NextestLines(_, _, _)
NextestLines(ls, S, i) ==
    IF i >= Len(ls) THEN S
    ELSE LET l == At(ls, i)
             name == extract_test_name_from_nextest_line(<<"crate", l.n>>)
             S1 == IF NEXTEST_PASS_RE(l) THEN [S EXCEPT !.passed = @ \cup {name}]
                   ELSE IF NEXTEST_FAIL_RE(l) THEN [S EXCEPT !.failed = @ \cup {name}]
                   ELSE IF NEXTEST_SKIP_RE(l) THEN [S EXCEPT !.ignored = @ \cup {name}]
                   ELSE IF TEST_LINE_RE(l) \/ TEST_MIXED_FORMAT_RE(l)
                        THEN process_test_status(S, to_lowercase(l.s), l.n)
                   ELSE IF ENH_TEST_RE_1(l)
                        THEN process_test_status(S, ENH_status(l), l.n)
                   ELSE IF /\ TEST_START_RE(l)
                           /\ ~Classified(S, l.n)
                           /\ remainder_is_diagnostic(l)
                        THEN process_test_status(S,
                                final_status(ls, i + 1, Min2(i + 50, Len(ls))), l.n)
                   ELSE S
         IN  NextestLines(ls, S1, i + 1)

parse_nextest_log(ls) == NextestLines(ls, EmptySets, 0)

\* index of the last non-blank line, -1 when there is none
last_nonblank(ls) ==
    LET nb == {i \in 0..(Len(ls) - 1) : At(ls, i).k # "blank"}
    IN  IF nb = {} THEN 0 - 1 ELSE SetMax(nb)

\* matches of NEXTEST_PASS_RE, NEXTEST_FAIL_RE and NEXTEST_SKIP_RE over the
\* whole text: each pattern ends in \s*$, which only the end of the text
\* satisfies, so only the last non-blank line can match
nextest_lines(ls) ==
    IF last_nonblank(ls) >= 0 /\
       At(ls, last_nonblank(ls)).k \in {"nxpass", "nxfail", "nxskip"}
    THEN 1 ELSE 0

\* looks_nextest_format: indicator strings ("PASS [" and "FAIL [" are the
\* ones the line shapes hold), more than 5 nextest lines, the mixed format,
\* or the nextest command line
looks_nextest_format(ls) ==
    LET has_indicators == \E i \in 1..Len(ls) : ls[i].k \in {"nxpass", "nxfail"}
        has_mixed_format ==
            /\ \E i \in 1..Len(ls) : ls[i].k = "nxpass"
            /\ \E i \in 1..Len(ls) :
                  ls[i].k \in {"result", "mixed", "start", "diag", "starto",
                               "ansi", "summary", "errline"}
            /\ \E i \in 1..Len(ls) :
                  ls[i].k \in {"result", "mixed", "ui"} /\ ls[i].s = "ok"
        has_nextest_command == FALSE
    IN  has_indicators \/ nextest_lines(ls) > 5 \/ has_mixed_format
        \/ has_nextest_command

(***************************************************************************)
(* SingleLineAnsi strategy, parse_rust_log_single_line.                    *)
(***************************************************************************)

\* ANSI_RE.is_match on a line
ANSI_RE(l) == l.k = "ansi"

\* strip_ansi_color_codes: the colour codes around the status word go
strip_ansi_color_codes(ls) ==
    [i \in 1..Len(ls) |->
        IF ANSI_RE(ls[i]) THEN L("result", ls[i].n, ls[i].s) ELSE ls[i]]

\* index of the first non-blank line at or after i, Len(ls) when none
RECURSIVE next_nonblank(_, _)
next_nonblank(ls, i) ==
    IF i >= Len(ls) THEN Len(ls)
    ELSE IF At(ls, i).k # "blank" THEN i
    ELSE next_nonblank(ls, i + 1)

\* the line starts with a status word: (ok|FAILED|ignored|error) matches at
\* its first character
starts_with_status(l) == l.k \in {"word", "errline"}

first_status(l) == IF l.k = "errline" THEN "error" ELSE to_lowercase(l.s)

\* ENH_TEST_RE_1 over the whole clean text, match starting at line i: on the
\* line itself, or, \s* running over line ends, a bare "test N ..." followed
\* by a line that starts with a status word.  <<matched, status>>
ENH_match_at(ls, i) ==
    LET l == At(ls, i)
        j == next_nonblank(ls, i + 1)
    IN  IF ENH_TEST_RE_1(l) THEN <<TRUE, ENH_status(l)>>
        ELSE IF l.k = "start" /\ j < Len(ls) /\ starts_with_status(At(ls, j))
             THEN <<TRUE, first_status(At(ls, j))>>
        ELSE <<FALSE, None>>

\* sub-pass (a): ENH_TEST_RE_1.captures_iter(&clean)
RECURSIVE CompactMatch(_, _, _)
CompactMatch(ls, S, i) ==
    IF i >= Len(ls) THEN S
    ELSE LET m == ENH_match_at(ls, i) IN
         IF m[1] THEN CompactMatch(ls, process_test_status(S, m[2], At(ls, i).n), i + 1)
         ELSE CompactMatch(ls, S, i + 1)

\* TEST_MIXED_FORMAT_RE over the whole clean text, match starting at line i:
\* the status word must be followed by white space and further text, which
\* may be the next non-blank line.  <<matched, status, last line consumed>>
MIXED_match_at(ls, i) ==
    LET l == At(ls, i)
        j == next_nonblank(ls, i + 1)
        j2 == next_nonblank(ls, j + 1)
    IN  IF l.k = "mixed" THEN <<TRUE, to_lowercase(l.s), i>>
        ELSE IF l.k = "result" /\ j < Len(ls) THEN <<TRUE, to_lowercase(l.s), j>>
        ELSE IF l.k = "start" /\ j < Len(ls) /\ At(ls, j).k = "word" /\ j2 < Len(ls)
             THEN <<TRUE, to_lowercase(At(ls, j).s), j2>>
        ELSE <<FALSE, None, i>>

\* sub-pass (b): TEST_MIXED_FORMAT_RE.captures_iter(&clean); the iteration
\* resumes after the text a match consumed
RECURSIVE TrailingContent(_, _, _)
TrailingContent(ls, S, i) ==
    IF i >= Len(ls) THEN S
    ELSE LET m == MIXED_match_at(ls, i) IN
         IF m[1] THEN TrailingContent(ls, process_test_status(S, m[2], At(ls, i).n),
                                      m[3] + 1)
         ELSE TrailingContent(ls, S, i + 1)

\* UI_TEST_PATH_RE and UI_TEST_PATH_SIMPLE_RE (the same pattern) on a line
UI_TEST_PATH_RE(l) == l.k = "ui"

\* the path captured from a ui line
ui_name(l) == "ui/" \o l.n

\* sub-pass (c): path-based UI results, line by line (both loops)
RECURSIVE UiMatch(_, _, _)
UiMatch(ls, S, i) ==
    IF i >= Len(ls) THEN S
    ELSE LET l == At(ls, i) IN
         IF UI_TEST_PATH_RE(l)
         THEN UiMatch(ls, process_test_status(S, to_lowercase(l.s), ui_name(l)), i + 1)
         ELSE UiMatch(ls, S, i + 1)

\* SINGLE_LINE_START_RE and SINGLE_LINE_NEXT_TEST_RE match at the head of
\* these lines, and end after the dots, 14 characters into the line
SINGLE_LINE_START_RE(l) == l.k \in {"result", "mixed", "start", "diag", "starto"}

window_cap == 1000

\* end_pos of the window of the test start at line i: the next test start,
\* else 1000 characters further, else the end of the text
window_end(ls, i) ==
    LET nxt == {j \in (i + 1)..(Len(ls) - 1) : SINGLE_LINE_START_RE(At(ls, j))}
        search_pos == text_offset(ls, 0, i) + 14
    IN  IF nxt # {} THEN text_offset(ls, 0, SetMin(nxt))
        ELSE Min2(search_pos + window_cap, text_offset(ls, 0, Len(ls)))

\* statuses pushed by the start-of-line loop over window.lines(), in line
\* order: the lines after line i that begin inside the window with a status
\* word (a failed/error word on a logging line needs panic evidence; no
\* logging line shape begins with a status word)
start_of_line_matches(ls, i) ==
    { j \in (i + 1)..(Len(ls) - 1) :
        /\ starts_with_status(At(ls, j))
        /\ text_offset(ls, 0, j) + StatusLen(first_status(At(ls, j)))
              <= window_end(ls, i) }

\* the status sub-pass (d) gives the test start at line i: the last
\* start-of-line match, else the last match inside the window
windowed_status(ls, i) ==
    LET sol == start_of_line_matches(ls, i)
        search_pos == text_offset(ls, 0, i) + 14
    IN  IF sol # {} THEN first_status(At(ls, SetMax(sol)))
        ELSE last_status(status_matches(ls, 0, Len(ls) - 1, search_pos,
                                        window_end(ls, i)))

\* sub-pass (d): windowed lookahead for the test starts not yet classified
RECURSIVE WindowedLookahead(_, _, _)
WindowedLookahead(ls, S, i) ==
    IF i >= Len(ls) THEN S
    ELSE LET l == At(ls, i) IN
         IF SINGLE_LINE_START_RE(l) /\ ~Classified(S, l.n)
         THEN WindowedLookahead(ls, process_test_status(S, windowed_status(ls, i), l.n),
                                i + 1)
         ELSE WindowedLookahead(ls, S, i + 1)

parse_rust_log_single_line(text) ==
    LET clean == strip_ansi_color_codes(text)
        Sa == CompactMatch(clean, EmptySets, 0)
        Sb == TrailingContent(clean, Sa, 0)
        Sc == UiMatch(clean, Sb, 0)
    IN  WindowedLookahead(clean, Sc, 0)

\* SIMPLE_PATTERN_RE.find_iter(text).count(): as ENH_TEST_RE_1, on the text
\* before the colour codes are removed
test_count(ls) ==
    Cardinality({i \in 0..(Len(ls) - 1) : ENH_match_at(ls, i)[1]})

\* looks_single_line_like
looks_single_line_like(ls) ==
    LET line_count == Len(ls)
        has_ansi == \E i \in 1..Len(ls) : ANSI_RE(ls[i])
        ui_test_count == Cardinality({i \in 1..Len(ls) : UI_TEST_PATH_RE(ls[i])})
        has_ui_tests == ui_test_count > 10
    IN  (line_count <= 3 /\ test_count(ls) > 5) \/ has_ansi \/ has_ui_tests

(***************************************************************************)
(* Strategy selection and the ParsedLog, parse_rust_log_file.              *)
(***************************************************************************)

\* the format tests with the ANSI/compact test taken first
select_strategy_ansi_first(ls) ==
    IF looks_single_line_like(ls) THEN "SingleLineAnsi"
    ELSE IF looks_nextest_format(ls) THEN "Nextest"
    ELSE "Standard"

\* the order of the format tests at the head of parse_rust_log_file
select_strategy(ls) ==
    IF looks_nextest_format(ls) THEN "Nextest"
    ELSE IF looks_single_line_like(ls) THEN "SingleLineAnsi"
    ELSE "Standard"

\* the passed, failed and ignored sets the selected extractor builds
extract_sets(ls) ==
    CASE select_strategy(ls) = "Nextest" -> parse_nextest_log(ls)
      [] select_strategy(ls) = "SingleLineAnsi" -> parse_rust_log_single_line(ls)
      [] OTHER -> parse_standard(ls)

\* all_of with the ignored names left out
all_of_noignored(S) == S.passed \cup S.failed

\* the all set: extended with passed, failed and ignored
all_of(S) == S.passed \cup S.failed \cup S.ignored

\* ParsedLog { passed, failed, ignored, all }
ParsedLog(S) ==
    [passed |-> S.passed, failed |-> S.failed, ignored |-> S.ignored,
     all |-> all_of(S)]

parse_rust_log_file(ls) == ParsedLog(extract_sets(ls))

\* the ParsedLog before a log is parsed, the result before it is built
NoLog == ParsedLog(EmptySets)

NoResult == << >>

(***************************************************************************)
(* Universe resolver and rule engine, status_lookup and                    *)
(* generate_analysis_result.                                               *)
(***************************************************************************)

Range(seq) == {seq[i] : i \in 1..Len(seq)}

\* status_lookup testing the passed set before the failed set
status_lookup_passed_first(names, parsed) ==
    [n \in Range(names) |->
        IF n \in parsed.passed THEN "passed"
        ELSE IF n \in parsed.failed THEN "failed"
        ELSE IF n \in parsed.ignored THEN "ignored"
        ELSE "missing"]

\* status_lookup: failed, else passed, else ignored, else missing
status_lookup(names, parsed) ==
    [n \in Range(names) |->
        IF n \in parsed.failed THEN "failed"
        ELSE IF n \in parsed.passed THEN "passed"
        ELSE IF n \in parsed.ignored THEN "ignored"
        ELSE "missing"]

\* c1_hits taking every P2P test that is not passed in base
c1_hits_not_passed(p2p, base_s) == SelectSeq(p2p, LAMBDA t : base_s[t] # "passed")

\* C1: P2P tests failed in base
c1_hits(p2p, base_s) == SelectSeq(p2p, LAMBDA t : base_s[t] = "failed")

\* c2_hits taking every test that is not passed in after
c2_hits_not_passed(universe, after_s) ==
    SelectSeq(universe, LAMBDA t : after_s[t] # "passed")

\* C2: universe tests failed in after
c2_hits(universe, after_s) == SelectSeq(universe, LAMBDA t : after_s[t] = "failed")

\* c3_hits taking every F2P test that is not failed in before
c3_hits_not_failed(f2p, before_s) == SelectSeq(f2p, LAMBDA t : before_s[t] # "failed")

\* C3: F2P tests passed in before
c3_hits(f2p, before_s) == SelectSeq(f2p, LAMBDA t : before_s[t] = "passed")

\* c4_hits without the look at the before log
c4_hits_base_only(p2p, base_s, before_s) ==
    LET hit == SelectSeq(p2p, LAMBDA t : base_s[t] = "missing")
    IN  [i \in 1..Len(hit) |-> <<hit[i], before_s[hit[i]]>>]

\* C4: P2P tests missing in base and not passing in before; the example
\* "{t} (missing in base, {be} in before)" is the pair <<t, be>>
c4_hits(p2p, base_s, before_s) ==
    LET hit == SelectSeq(p2p, LAMBDA t :
                   /\ base_s[t] # "passed"
                   /\ base_s[t] = "missing"
                   /\ before_s[t] # "passed")
    IN  [i \in 1..Len(hit) |-> <<hit[i], before_s[hit[i]]>>]

\* P2P acceptance lists
p2p_ignored(p2p, base_s, after_s) ==
    SelectSeq(p2p, LAMBDA t : base_s[t] = "passed" /\ after_s[t] = "passed")

p2p_considered(p2p, base_s, after_s) ==
    SelectSeq(p2p, LAMBDA t : ~(base_s[t] = "passed" /\ after_s[t] = "passed"))

\* p2p_rejected keeping only the tests failed in before
p2p_rejected_before_failed(considered, base_s, before_s) ==
    SelectSeq(considered, LAMBDA t : base_s[t] = "missing" /\ before_s[t] = "failed")

p2p_rejected(considered, base_s, before_s) ==
    SelectSeq(considered, LAMBDA t : base_s[t] = "missing" /\ before_s[t] # "passed")

p2p_ok(considered, base_s, before_s) ==
    SelectSeq(considered, LAMBDA t : base_s[t] = "missing" /\ before_s[t] = "passed")

\* F2P reporting lists
f2p_ignored(f2p, after_s) == SelectSeq(f2p, LAMBDA t : after_s[t] = "passed")

f2p_considered(f2p, after_s) == SelectSeq(f2p, LAMBDA t : after_s[t] # "passed")

f2p_rejected(f2p, after_s) == SelectSeq(f2p, LAMBDA t : after_s[t] = "failed")

\* f2p_ok keeping every F2P test that is not failed in after
f2p_ok_not_failed(f2p, after_s) == SelectSeq(f2p, LAMBDA t : after_s[t] # "failed")

f2p_ok(f2p, after_s) == SelectSeq(f2p, LAMBDA t : after_s[t] = "missing")

\* rejection_satisfied asking for more than one rejected test
rejection_satisfied_several(rejected) == Len(rejected) > 1

\* rejection_satisfied = !p2p_rejected.is_empty()
rejection_satisfied(rejected) == rejected # << >>

\* one row per test of the p2p_analysis / f2p_analysis matrices
stage_matrix(tests, base_s, before_s, after_s) ==
    [t \in Range(tests) |->
        [base |-> base_s[t], before |-> before_s[t], after |-> after_s[t]]]

generate_analysis_result(base, before, after, p2p, f2p) ==
    LET universe == p2p \o f2p
        base_s == status_lookup(universe, base)
        before_s == status_lookup(universe, before)
        after_s == status_lookup(universe, after)
        considered == p2p_considered(p2p, base_s, after_s)
        rejected == p2p_rejected(considered, base_s, before_s)
    IN  [ c1 |-> [has_problem |-> c1_hits(p2p, base_s) # << >>,
                  examples |-> c1_hits(p2p, base_s)],
          c2 |-> [has_problem |-> c2_hits(universe, after_s) # << >>,
                  examples |-> c2_hits(universe, after_s)],
          c3 |-> [has_problem |-> c3_hits(f2p, before_s) # << >>,
                  examples |-> c3_hits(f2p, before_s)],
          c4 |-> [has_problem |-> c4_hits(p2p, base_s, before_s) # << >>,
                  examples |-> c4_hits(p2p, base_s, before_s)],
          satisfied |-> rejection_satisfied(rejected),
          p2p_ignored |-> p2p_ignored(p2p, base_s, after_s),
          p2p_considered |-> considered,
          p2p_rejected |-> rejected,
          p2p_considered_but_ok |-> p2p_ok(considered, base_s, before_s),
          f2p_ignored |-> f2p_ignored(f2p, after_s),
          f2p_considered |-> f2p_considered(f2p, after_s),
          f2p_rejected |-> f2p_rejected(f2p, after_s),
          f2p_considered_but_ok |-> f2p_ok(f2p, after_s),
          p2p_analysis |-> stage_matrix(p2p, base_s, before_s, after_s),
          f2p_analysis |-> stage_matrix(f2p, base_s, before_s, after_s) ]

(***************************************************************************)
(* Duplicate detection, detect_same_file_duplicates.                       *)
(* One more line shape:                                                    *)
(*   running "     Running tests/F.rs (target/debug/deps/F-0000)"          *)
(* with F the file ("f" or "g") in field n.                                *)
(***************************************************************************)

\* FILE_BOUNDARY_RE_1 matches a running line and captures its path
\* (FILE_BOUNDARY_RE_2 needs "===", FILE_BOUNDARY_RE_3 "test result: ok."
\* followed by "for F.rs": no other shape has them)
FILE_BOUNDARY_RE_1(l) == l.k = "running"

\* Option<String>: the file of a boundary marker
detect_file_boundary(l) ==
    IF FILE_BOUNDARY_RE_1(l) THEN Some(l.n) ELSE NoneOpt

\* the whole path a ui line reports as the test name
ui_path(l) == "tests/ui/" \o l.n \o ".rs"

\* Option<(name, status)>: ENH_TEST_RE_1 (ENH_TEST_RE_2 matches a subset of
\* its lines), then UI_TEST_PATH_RE; the status keeps its case
extract_test_info_enhanced(l) ==
    IF ENH_TEST_RE_1(l)
    THEN Some(<<l.n, IF l.k = "diag" THEN "error" ELSE l.s>>)
    ELSE IF UI_TEST_PATH_RE(l) THEN Some(<<ui_path(l), l.s>>)
    ELSE NoneOpt

SP == " "

\* a status word as text: "ok" is the letters o and k
status_text(s) == IF s = "ok" THEN <<"o", "k">> ELSE <<s>>

\* the text of a line, word by word with the spaces between
line_text(l) ==
    CASE l.k = "result" -> <<"test", SP, l.n, SP, "...", SP>> \o status_text(l.s)
      [] l.k = "mixed" -> <<"test", SP, l.n, SP, "...", SP>> \o status_text(l.s)
                              \o <<SP, "(took", SP, "1s)">>
      [] l.k = "start" -> <<"test", SP, l.n, SP, "...">>
      [] l.k = "diag" -> <<"test", SP, l.n, SP, "...", SP, "error:", SP,
                           "E0432", SP, "unresolved", SP, "import">>
      [] l.k = "starto" -> <<"test", SP, l.n, SP, "...", SP, "o">>
      [] l.k = "word" -> status_text(l.s)
      [] l.k = "o" -> <<"o">>
      [] l.k = "k" -> <<"k">>
      [] l.k = "banner" -> <<"failures:">>
      [] l.k = "indent" -> <<SP, SP, SP, SP, l.n>>
      [] l.k = "blank" -> << >>
      [] l.k = "noise" -> <<"running", SP, "2", SP, "tests">>
      [] l.k = "ui" -> <<ui_path(l), SP, "...", SP>> \o status_text(l.s)
      [] l.k = "running" -> <<SP, SP, SP, SP, SP, "Running", SP,
                              "tests/" \o l.n \o ".rs", SP,
                              "(target/debug/deps/" \o l.n \o "-0000)">>
      [] OTHER -> <<l.k, l.n, l.s>>

\* Vec<String>::join(" ")
RECURSIVE join(_)
join(ls) ==
    IF ls = << >> THEN << >>
    ELSE IF Len(ls) = 1 THEN line_text(ls[1])
    ELSE line_text(ls[1]) \o <<SP>> \o join(Tail(ls))

\* str::trim
RECURSIVE trim(_)
trim(t) ==
    IF t = << >> THEN t
    ELSE IF Head(t) = SP THEN trim(Tail(t))
    ELSE IF t[Len(t)] = SP THEN trim(SubSeq(t, 1, Len(t) - 1))
    ELSE t

\* struct Occur
Occur(name, status, line_no, before, after) ==
    [test_name |-> name, status |-> status, line_no |-> line_no,
     context_before |-> before, context_after |-> after]

\* the context string is_true_duplicate builds for an occurrence
context_of(o) == trim(join(o.context_before) \o join(o.context_after))

\* smallest difference of neighbours in the sorted line numbers, of two
\* occurrences or more
min_dist(occ) ==
    LET nos == {occ[i].line_no : i \in 1..Len(occ)}
    IN  SetMin({y - x : <<x, y>> \in
                   {<<x, y>> \in nos \X nos :
                       x < y /\ ~\E z \in nos : x < z /\ z < y}})

\* is_true_duplicate with the distance test at 10 lines or fewer
is_true_duplicate_within_10(occ) ==
    IF Len(occ) <= 1 THEN FALSE
    ELSE IF min_dist(occ) <= 10 THEN TRUE
    ELSE LET low(i) == to_lowercase(occ[i].status)
             has_fail == \E i \in 1..Len(occ) : low(i) \in {"failed", "error"}
             has_ok == \E i \in 1..Len(occ) : low(i) = "ok"
         IN  IF has_fail /\ has_ok THEN TRUE
             ELSE \A i \in 1..Len(occ) :
                     /\ context_of(occ[i]) # << >>
                     /\ context_of(occ[i]) = context_of(occ[1])

is_true_duplicate(occ) ==
    IF Len(occ) <= 1 THEN FALSE
    ELSE IF min_dist(occ) < 10 THEN TRUE
    ELSE LET low(i) == to_lowercase(occ[i].status)
             has_fail == \E i \in 1..Len(occ) : low(i) \in {"failed", "error"}
             has_ok == \E i \in 1..Len(occ) : low(i) = "ok"
         IN  IF has_fail /\ has_ok THEN TRUE
             ELSE \A i \in 1..Len(occ) :
                     /\ context_of(occ[i]) # << >>
                     /\ context_of(occ[i]) = context_of(occ[1])

\* per_file.entry(file).or_default().push(o)
push_occur(pf, file, o) ==
    IF file \in DOMAIN pf THEN [pf EXCEPT ![file] = Append(@, o)]
    ELSE [f \in DOMAIN pf \cup {file} |-> IF f = file THEN <<o>> ELSE pf[f]]

\* the scan of the lines: boundary markers switch the file context, test
\* lines are pushed under the current one with two lines of context before
\* (none at lines 0 and 1) and up to two after
RECURSIVE scan_lines(_, _, _, _)
scan_lines(ls, i, current_file, pf) ==
    IF i >= Len(ls) THEN pf
    ELSE LET l == At(ls, i)
             f == detect_file_boundary(l)
             t == extract_test_info_enhanced(l)
             before == IF i >= 2 THEN SubSeq(ls, i - 1, i) ELSE << >>
             after == IF i + 1 < Len(ls)
                      THEN SubSeq(ls, i + 2, Min2(Len(ls), i + 3))
                      ELSE << >>
         IN  IF f # NoneOpt THEN scan_lines(ls, i + 1, f[1], pf)
             ELSE IF t # NoneOpt
             THEN scan_lines(ls, i + 1, current_file,
                     push_occur(pf, current_file,
                                Occur(t[1][1], t[1][2], i, before, after)))
             ELSE scan_lines(ls, i + 1, current_file, pf)

\* by_name of one file: the occurrences of one name, in line order
by_name(occs, name) == SelectSeq(occs, LAMBDA o : o.test_name = name)

\* the groups reported: name, file and the lines of the occurrences
report_duplicates(pf) ==
    { [name |-> name, file |-> file,
       places |-> [i \in 1..Len(by_name(pf[file], name)) |->
                      by_name(pf[file], name)[i].line_no]] :
        <<file, name>> \in
            { <<file, name>> \in
                UNION {{<<f, pf[f][i].test_name>> : i \in 1..Len(pf[f])} :
                          f \in DOMAIN pf} :
                /\ Len(by_name(pf[file], name)) > 1
                /\ is_true_duplicate(by_name(pf[file], name)) } }

\* detect_same_file_duplicates: nothing for an empty text
detect_same_file_duplicates(ls) ==
    IF ls = << >> THEN {} ELSE report_duplicates(scan_lines(ls, 0, "unknown", << >>))

(***************************************************************************)
(* analyze_logs and the files it reads.                                    *)
(* A file is Unreadable or Readable(content).  A log file holds a text, a  *)
(* report.json holds a JSON document or text that is no JSON, a diff file  *)
(* holds diff lines [k |-> kind, n |-> test name] of the shapes (KEY is    *)
(* the last segment of N, "ta" for m::ta):                                 *)
(*   fn    "+fn KEY() {"          fnsp  "+fn KEY () {"                     *)
(*   call  "+    KEY();"          text  "+let x = 1;"                      *)
(*   attr  "    #[test]"          fnctx "    fn KEY() {"                   *)
(***************************************************************************)
BASE_LOG == "logs/base.log"

BEFORE_LOG == "logs/before.log"

AFTER_LOG == "logs/after.log"

AGENT_LOG == "logs/post_agent_patch.log"

REPORT_JSON == "results/report.json"

GOLDEN_DIFF == "patches/golden_src.diff"

TEST_DIFF == "patches/test.diff"

Paths == {BASE_LOG, BEFORE_LOG, AFTER_LOG, AGENT_LOG, REPORT_JSON,
          GOLDEN_DIFF, TEST_DIFF}

Unreadable == [ok |-> FALSE, content |-> << >>]

Readable(c) == [ok |-> TRUE, content |-> c]

\* fs::read_to_string
read_to_string(g, path) == g[path]

\* path.to_lowercase().contains(fragment), on the paths above
path_contains(path, fragment) ==
    <<path, fragment>> \in
        { <<BASE_LOG, "base.log">>, <<BEFORE_LOG, "before.log">>,
          <<AFTER_LOG, "after.log">>, <<AGENT_LOG, "post_agent_patch.log">>,
          <<AGENT_LOG, "agent.log">>, <<REPORT_JSON, "results/report.json">>,
          <<REPORT_JSON, "report.json">>, <<GOLDEN_DIFF, "patches/">>,
          <<TEST_DIFF, "patches/">>, <<GOLDEN_DIFF, ".diff">>,
          <<TEST_DIFF, ".diff">>, <<GOLDEN_DIFF, "gold">>,
          <<GOLDEN_DIFF, "src">>, <<TEST_DIFF, "test">> }

\* file_paths.iter().find(..): Option<path>; a class has one path at most
find_path(paths, fragments) ==
    LET hits == {p \in paths : \E f \in fragments : path_contains(p, f)}
    IN  IF hits = {} THEN NoneOpt ELSE Some(CHOOSE p \in hits : TRUE)

base_log(paths) == find_path(paths, {"base.log"})

before_log(paths) == find_path(paths, {"before.log"})

after_log(paths) == find_path(paths, {"after.log"})

agent_log(paths) == find_path(paths, {"post_agent_patch.log", "agent.log"})

report_json_path(paths) == find_path(paths, {"results/report.json", "report.json"})

\* the check on the three required logs
missing_required(paths) ==
    base_log(paths) = NoneOpt \/ before_log(paths) = NoneOpt
        \/ after_log(paths) = NoneOpt

\* parse_rust_log_file on a path, with an unreadable file read as empty
parse_log_or_default(g, path) ==
    [ok |-> TRUE,
     value |-> parse_rust_log_file(read_to_string(g, path).content),
     error |-> NoneOpt]

\* parse_rust_log_file on a path: Result<ParsedLog, String>
parse_log(g, path) ==
    IF read_to_string(g, path).ok
    THEN [ok |-> TRUE,
          value |-> parse_rust_log_file(read_to_string(g, path).content),
          error |-> NoneOpt]
    ELSE [ok |-> FALSE, value |-> NoLog,
          error |-> Some(<<"Failed to read log file", path>>)]

\* report.json: read, then serde_json::from_str; None on either failure
read_report(g, paths) ==
    LET path == report_json_path(paths)
    IN  IF path = NoneOpt THEN NoneOpt
        ELSE IF ~read_to_string(g, path[1]).ok THEN NoneOpt
        ELSE IF ~read_to_string(g, path[1]).content.json THEN NoneOpt
        ELSE Some(read_to_string(g, path[1]).content.value)

(***************************************************************************)
(* report.json.  A document is [shape, entries]:                           *)
(*   results       {"results": [{"test_name": N, "status": W}, ..]}        *)
(*   test_results  {"test_results": [{"test_name": N, "status": W}, ..]}   *)
(*   tests         {"tests": {N: {"status": W}, ..}}                       *)
(*   swe           {"run": {"tests_status": {"FAIL_TO_PASS":               *)
(*                    {"success": [..], "failure": [..]}}}}, W names the   *)
(*                 array an entry is in                                    *)
(*   direct        {N: W, ..}                                              *)
(*   array         [{"test_name": N, "status": W}, ..]                     *)
(* with entries <<N, W>>.                                                  *)
(***************************************************************************)

\* status.to_lowercase() on the status words of a report
json_lowercase(w) ==
    CASE w = "FAILED" -> "failed"
      [] w = "FAIL" -> "fail"
      [] w = "PASSED" -> "passed"
      [] OTHER -> w

entry_names(report, words) ==
    {report.entries[i][1] : i \in
        {i \in 1..Len(report.entries) :
            json_lowercase(report.entries[i][2]) \in words}}

\* report_failed_tests as report_status_lookup collects it
report_failed_tests(report) ==
    CASE report.shape \in {"results", "test_results", "tests", "direct"} ->
            entry_names(report, {"failed", "fail"})
      [] report.shape = "swe" ->
            {report.entries[i][1] : i \in
                {i \in 1..Len(report.entries) : report.entries[i][2] = "failure"}}
      [] OTHER -> {}

\* report_passed_tests as report_status_lookup collects it
report_passed_tests(report) ==
    CASE report.shape \in {"results", "test_results", "tests", "direct"} ->
            entry_names(report, {"passed", "pass", "success"})
      [] report.shape = "swe" ->
            {report.entries[i][1] : i \in
                {i \in 1..Len(report.entries) : report.entries[i][2] = "success"}}
      [] OTHER -> {}

\* report_status_lookup: failed, else passed, else missing
report_status_lookup(names, report) ==
    [n \in Range(names) |->
        IF n \in report_failed_tests(report) THEN "failed"
        ELSE IF n \in report_passed_tests(report) THEN "passed"
        ELSE "missing"]

\* the statuses of an absent log or report: an empty map, read as missing
no_statuses(names) == [n \in Range(names) |-> "missing"]

\* report_failed_tests as the C6 block collects it
c6_report_failed_tests(report) ==
    CASE report.shape \in {"results", "test_results"} ->
            entry_names(report, {"failed", "fail"})
      [] report.shape = "tests" -> entry_names(report, {"failed", "fail"})
      [] report.shape = "swe" ->
            {report.entries[i][1] : i \in
                {i \in 1..Len(report.entries) : report.entries[i][2] = "failure"}}
      [] report.shape = "direct" -> entry_names(report, {"failed", "fail"})
      [] OTHER -> {}

\* the report status the C6 block compares
c6_report_status(t, report, report_s) ==
    IF t \in c6_report_failed_tests(report) THEN "failed"
    ELSE IF report_s[t] = "passed" THEN "passed"
    ELSE "missing"

\* C6 reporting only the tests failed in the report and passed in the agent log
c6_hits_failed_only(universe, agent_s, report_s, report) ==
    LET hit(t) == <<c6_report_status(t, report, report_s), agent_s[t]>>
                      = <<"failed", "passed">>
        hits == SelectSeq(universe, hit)
    IN  [i \in 1..Len(hits) |->
            <<hits[i], c6_report_status(hits[i], report, report_s), agent_s[hits[i]]>>]

\* C6: the universe tests whose report status and agent status are failed
\* and passed, either way round; an example is <<test, report, agent>>
c6_hits(universe, agent_s, report_s, report) ==
    LET hit(t) ==
            LET report_status == c6_report_status(t, report, report_s)
                agent_status == agent_s[t]
            IN  /\ report_status # "missing"
                /\ agent_status # "missing"
                /\ report_status # agent_status
                /\ <<report_status, agent_status>> \in
                      {<<"failed", "passed">>, <<"passed", "failed">>}
        hits == SelectSeq(universe, hit)
    IN  [i \in 1..Len(hits) |->
            <<hits[i], c6_report_status(hits[i], report, report_s), agent_s[hits[i]]>>]

\* C5: examples kept per stage log
dup_cap == 50

\* .take(50) of a Vec filled in the order of a HashMap: any 50 of them
take_dups(dups) ==
    IF Cardinality(dups) <= dup_cap THEN {dups}
    ELSE {d \in SUBSET dups : Cardinality(d) = dup_cap}

\* the duplicates of the file at a path, read with unwrap_or_default
dups_of_file(g, path) ==
    detect_same_file_duplicates(
        IF read_to_string(g, path).ok THEN read_to_string(g, path).content
        ELSE << >>)

\* dup_map: a key for each of base, before, after with duplicates
dup_map(base_dups, before_dups, after_dups) ==
    LET stage_dups == [s \in {"base", "before", "after"} |->
                          CASE s = "base" -> base_dups
                            [] s = "before" -> before_dups
                            [] OTHER -> after_dups]
    IN  [s \in {s \in {"base", "before", "after"} : stage_dups[s] # {}} |->
            stage_dups[s]]

\* the dup_maps C5 can build from the three log files
c5_dup_maps(g, base_path, before_path, after_path) ==
    { dup_map(b, be, a) :
        b \in take_dups(dups_of_file(g, base_path)),
        be \in take_dups(dups_of_file(g, before_path)),
        a \in take_dups(dups_of_file(g, after_path)) }

\* C7: the diff and patch files under patches/
diff_files(paths) ==
    {p \in paths : path_contains(p, "patches/")
                   /\ (path_contains(p, ".diff") \/ path_contains(p, ".patch"))}

\* a golden source diff: its file name has gold, src or source and no test
golden_source_diff(p) ==
    /\ path_contains(p, "gold") \/ path_contains(p, "src")
          \/ path_contains(p, "source")
    /\ ~path_contains(p, "test")

\* the last "::" segment of a test name
test_name_to_search(t) == CASE t = "a" -> "ta" [] t = "b" -> "tb"

\* the key of the name a diff line mentions
line_key(dl) == test_name_to_search(dl.n)

\* the contents of the readable test diffs, one after the other
test_diff_contents(g, paths) ==
    LET readable == {p \in diff_files(paths) :
                        ~golden_source_diff(p) /\ read_to_string(g, p).ok}
    IN  IF readable = {} THEN << >>
        ELSE read_to_string(g, CHOOSE p \in readable : TRUE).content

\* diff_content.contains(key)
diff_contains(content, key) ==
    \E i \in 1..Len(content) :
        content[i].k \in {"fn", "fnsp", "call", "fnctx"} /\ line_key(content[i]) = key

\* contains("fn KEY(") or contains("fn KEY (")
found_direct_fn(content, key) ==
    \E i \in 1..Len(content) :
        content[i].k \in {"fn", "fnsp", "fnctx"} /\ line_key(content[i]) = key

\* a line that trims to "#[test]" with, in the three lines below it, a line
\* that trims to a text starting with "fn KEY(" or "fn KEY ("
found_test_attribute(content, key) ==
    \E i \in 1..(Len(content) - 1) :
        /\ content[i].k = "attr"
        /\ \E j \in (i + 1)..Min2(i + 3, Len(content)) :
              content[j].k = "fnctx" /\ line_key(content[j]) = key

found_exact_test_in_test_diffs(content, key) ==
    IF content # << >>
    THEN found_direct_fn(content, key) \/ found_test_attribute(content, key)
    ELSE FALSE

\* C7 without the look into the test diffs
c7_hits_golden_only(g, paths, f2p) ==
    LET golden == {p \in diff_files(paths) :
                      golden_source_diff(p) /\ read_to_string(g, p).ok}
    IN  IF golden = {} THEN << >>
        ELSE LET path == CHOOSE p \in golden : TRUE
                 hits == SelectSeq(f2p, LAMBDA t :
                            diff_contains(read_to_string(g, path).content,
                                          test_name_to_search(t)))
             IN  [i \in 1..Len(hits) |->
                    <<hits[i], test_name_to_search(hits[i]), path>>]

\* C7: the F2P tests whose key is in a readable golden source diff and not
\* defined as a function in the test diffs; an example is <<test, key, diff>>
c7_hits(g, paths, f2p) ==
    LET golden == {p \in diff_files(paths) :
                      golden_source_diff(p) /\ read_to_string(g, p).ok}
        tests == test_diff_contents(g, paths)
    IN  IF golden = {} THEN << >>
        ELSE LET path == CHOOSE p \in golden : TRUE
                 hits == SelectSeq(f2p, LAMBDA t :
                            /\ diff_contains(read_to_string(g, path).content,
                                             test_name_to_search(t))
                            /\ ~found_exact_test_in_test_diffs(tests,
                                             test_name_to_search(t)))
             IN  [i \in 1..Len(hits) |->
                    <<hits[i], test_name_to_search(hits[i]), path>>]

\* one row per test of the matrices, with the agent and report columns
full_matrix(tests, base_s, before_s, after_s, agent_s, report_s) ==
    [t \in Range(tests) |->
        [base |-> base_s[t], before |-> before_s[t], after |-> after_s[t],
         agent |-> agent_s[t], report |-> report_s[t]]]

\* the values generate_analysis_result can return for its arguments and the
\* files it reads: the rules C1-C4, the lists and the flag as above, the
\* rules C5-C7 and the matrices with all their columns
analysis_results(base, before, after, agent, p2p, f2p, report, paths, g) ==
    LET universe == p2p \o f2p
        core == generate_analysis_result(base, before, after, p2p, f2p)
        base_s == status_lookup(universe, base)
        before_s == status_lookup(universe, before)
        after_s == status_lookup(universe, after)
        agent_s == IF agent # NoneOpt THEN status_lookup(universe, agent[1])
                   ELSE no_statuses(universe)
        report_s == IF report # NoneOpt
                    THEN report_status_lookup(universe, report[1])
                    ELSE no_statuses(universe)
        c6 == IF agent # NoneOpt /\ report # NoneOpt
              THEN c6_hits(universe, agent_s, report_s, report[1])
              ELSE << >>
        c7 == c7_hits(g, paths, f2p)
    IN  { [ c1 |-> core.c1, c2 |-> core.c2, c3 |-> core.c3, c4 |-> core.c4,
            c5 |-> [has_problem |-> DOMAIN dm # {},
                    duplicate_examples_per_log |-> dm],
            c6 |-> [has_problem |-> c6 # << >>, examples |-> c6],
            c7 |-> [has_problem |-> c7 # << >>, examples |-> c7],
            satisfied |-> core.satisfied,
            p2p_ignored |-> core.p2p_ignored,
            p2p_considered |-> core.p2p_considered,
            p2p_rejected |-> core.p2p_rejected,
            p2p_considered_but_ok |-> core.p2p_considered_but_ok,
            f2p_ignored |-> core.f2p_ignored,
            f2p_considered |-> core.f2p_considered,
            f2p_rejected |-> core.f2p_rejected,
            f2p_considered_but_ok |-> core.f2p_considered_but_ok,
            p2p_analysis |-> full_matrix(p2p, base_s, before_s, after_s,
                                         agent_s, report_s),
            f2p_analysis |-> full_matrix(f2p, base_s, before_s, after_s,
                                         agent_s, report_s) ] :
          dm \in c5_dup_maps(g, base_log(paths)[1], before_log(paths)[1],
                             after_log(paths)[1]) }

(***************************************************************************)
(* merge_chunk_results.  A chunk result is a sequence of                   *)
(* [test_name, status]; test_status_map is a function on the names seen.   *)
(***************************************************************************)

\* the conflict rule with the new status always taken
new_status_last(existing_status, status) == status

\* the conflict rule: the match on (existing_status, status)
new_status(existing_status, status) ==
    IF <<existing_status, status>> \in {<<"failed", "passed">>, <<"passed", "failed">>}
    THEN "failed"
    ELSE IF existing_status = "non_existing" THEN status
    ELSE IF status = "non_existing" THEN existing_status
    ELSE IF existing_status = status THEN existing_status
    ELSE status

\* one test_status of a chunk: inserted, or resolved against the entry
insert_status(map, test_status) ==
    [n \in DOMAIN map \cup {test_status.test_name} |->
        IF n # test_status.test_name THEN map[n]
        ELSE IF n \in DOMAIN map THEN new_status(map[n], test_status.status)
        ELSE test_status.status]

RECURSIVE merge_chunk(_, _)
\* for test_status in chunk_result
merge_chunk(chunk_result, map) ==
    IF chunk_result = << >> THEN map
    ELSE merge_chunk(Tail(chunk_result), insert_status(map, Head(chunk_result)))

RECURSIVE merge_chunks(_, _)
\* for chunk_result in chunk_results
merge_chunks(chunks, map) ==
    IF chunks = << >> THEN map
    ELSE merge_chunks(Tail(chunks), merge_chunk(Head(chunks), map))

\* test_type_map.get(name), "unknown" by default; all_tests holds
\* <<type, name>> and a later entry of a name replaces an earlier one
test_type(all_tests, test_name) ==
    LET at == {i \in 1..Len(all_tests) : all_tests[i][2] = test_name}
    IN  IF at = {} THEN "unknown" ELSE all_tests[SetMax(at)][1]

\* the test names of the model in the order of String::cmp
name_order == <<"t", "u">>

\* final_results: one TestStatus per entry of the map, sorted by test name
sorted_results(map, all_tests) ==
    LET names == SelectSeq(name_order, LAMBDA n : n \in DOMAIN map)
    IN  [i \in 1..Len(names) |->
            [test_name |-> names[i], status |-> map[names[i]],
             type |-> test_type(all_tests, names[i])]]

merge_chunk_results(chunks, all_tests) ==
    sorted_results(merge_chunks(chunks, << >>), all_tests)

(***************************************************************************)
(* chunk_log_content.  The log is a sequence of bytes: "x" for an ASCII    *)
(* byte, "\n" for a newline, and "C3" "A9" for the two bytes of a          *)
(* character outside ASCII.                                                *)
(***************************************************************************)

\* str::is_char_boundary: the ends of the string, and every byte that is
\* not a continuation byte
is_char_boundary(s, index) ==
    \/ index = 0
    \/ index = Len(s)
    \/ index < Len(s) /\ s[index + 1] # "A9"

\* s[from..to] panics unless both ends are character boundaries
slice_panics(s, from, to) ==
    ~is_char_boundary(s, from) \/ ~is_char_boundary(s, to)

\* s[from..to].rfind('\n'): Some(position of the last newline in the slice),
\* None when it has none
rfind_newline(s, from, to) ==
    LET at == {p \in 0..(to - from - 1) : s[from + p + 1] = "\n"}
    IN  IF at = {} THEN NoneOpt ELSE Some(SetMax(at))

\* the end of the chunk that begins at start (search_end is potential_end),
\* as Some(end); None when a slice taken to look for a newline does not lie
\* on character boundaries and the function panics
chunk_end(s, size, from) ==
    LET potential_end == from + size
        search_start == from + ((size * 3) \div 4)
    IN  IF potential_end >= Len(s) THEN Some(Len(s))
        ELSE IF slice_panics(s, search_start, potential_end) THEN NoneOpt
        ELSE IF rfind_newline(s, search_start, potential_end) # NoneOpt
             THEN Some(search_start + rfind_newline(s, search_start, potential_end)[1] + 1)
        ELSE IF slice_panics(s, from, potential_end) THEN NoneOpt
        ELSE IF rfind_newline(s, from, potential_end) # NoneOpt
             THEN Some(from + rfind_newline(s, from, potential_end)[1] + 1)
        ELSE Some(potential_end)

(***************************************************************************)
(* analyze_log_with_openai: the retry rule of a chunk.                     *)
(***************************************************************************)
max_retries == 3

\* retry_count > max_retries on a retry_count that counts the failed attempt
gives_up_late(count) == count > max_retries + 1

gives_up(count) == count > max_retries

(***************************************************************************)
(* validate_deliverable.  A Drive listing is a sequence of entries         *)
(* [id, name, mimeType]; FileInfo is [id, name, path], the path a pair     *)
(* <<directory, name>>.                                                    *)
(***************************************************************************)
FOLDER_MIME == "application/vnd.google-apps.folder"

\* extract_drive_folder_id on the links of FolderLinks
extract_drive_folder_id(link) ==
    CASE link = "https://drive.google.com/drive/folders/F?usp=sharing" -> Some("F")
      [] link = "https://drive.google.com/open?id=F" -> Some("F")
      [] OTHER -> NoneOpt

\* folder_name.split_whitespace().next()
instance_name(folder_name) ==
    CASE folder_name = "inst" -> Some("inst")
      [] folder_name = "inst v2" -> Some("inst")
      [] OTHER -> NoneOpt

\* format!("{}.json", instance_name)
json_name(instance) == IF instance = "inst" THEN "inst.json" ELSE None

\* name.to_lowercase() of an entry name
name_lowercase(name) ==
    CASE name = "Logs" -> "logs"
      [] name = "I_AFTER.LOG" -> "i_after.log"
      [] OTHER -> name

\* name.ends_with(suffix) on lower-cased entry names
ends_with(name, suffix) ==
    \/ name = "i_after.log" /\ suffix = "_after.log"
    \/ name = "i_before.log" /\ suffix = "_before.log"
    \/ name = "i_base.log" /\ suffix = "_base.log"
    \/ name = "i_post_agent_patch.log" /\ suffix = "_post_agent_patch.log"

required_suffixes == <<"_after.log", "_before.log", "_base.log", "_post_agent_patch.log">>

\* iter().find(pred): Some(first entry that satisfies pred)
find_entry(listing, pred(_)) ==
    LET at == {k \in 1..Len(listing) : pred(listing[k])}
    IN  IF at = {} THEN NoneOpt ELSE Some(listing[SetMin(at)])

\* Rule 3: a non-folder entry named {instance_name}.json
has_instance_json(listing, instance_json) ==
    \E k \in 1..Len(listing) :
        listing[k].name = instance_json /\ listing[k].mimeType # FOLDER_MIME

\* Rule 4: the folder named "logs", whatever the case
logs_folder(listing) ==
    find_entry(listing, LAMBDA e : name_lowercase(e.name) = "logs" /\ e.mimeType = FOLDER_MIME)

\* Rule 5: the folder named "results"
results_folder(listing) ==
    find_entry(listing, LAMBDA e : name_lowercase(e.name) = "results" /\ e.mimeType = FOLDER_MIME)

\* Rule 4: a non-folder entry whose name ends with the suffix
has_file(listing, suffix) ==
    \E k \in 1..Len(listing) :
        /\ ends_with(name_lowercase(listing[k].name), suffix)
        /\ listing[k].mimeType # FOLDER_MIME

FileInfo(e, dir) == [id |-> e.id, name |-> e.name, path |-> <<dir, e.name>>]

\* the entry pushed for the instance JSON: the first entry of that name
instance_file(listing, instance_json) ==
    find_entry(listing, LAMBDA e : e.name = instance_json)

\* the entry pushed for a suffix: the first entry whose name ends with it
log_file(listing, suffix) ==
    find_entry(listing, LAMBDA e : ends_with(name_lowercase(e.name), suffix))

\* the FileInfo values of the found entries, in the order of the searches
RECURSIVE push_found(_, _)
push_found(found, dir) ==
    IF found = << >> THEN << >>
    ELSE (IF Head(found) = NoneOpt THEN << >> ELSE <<FileInfo(Head(found)[1], dir)>>)
         \o push_found(Tail(found), dir)

\* files_to_download after steps 1 and 2
required_files(listing, logs_listing, instance_json) ==
    push_found(<<instance_file(listing, instance_json)>>, "main")
    \o push_found([k \in 1..Len(required_suffixes) |->
                      log_file(logs_listing, required_suffixes[k])], "logs")

\* the report.json of the results folder, a non-folder entry
report_file(listing) ==
    find_entry(listing, LAMBDA e : name_lowercase(e.name) = "report.json"
                                   /\ e.mimeType # FOLDER_MIME)

(***************************************************************************)
(* Bounds and inputs.                                                      *)
(***************************************************************************)

\* longest log text given to the extractor on its own
MaxLines == 3

\* longest stage log (base, before, after) of an analysis run
MaxStageLines == 2

\* longest log of nextest PASS lines only
MaxNextestRun == 7

\* the texts of at most n lines over an alphabet of lines
Texts(alphabet, n) == UNION {[1..m -> alphabet] : m \in 0..n}

\* lines of the logs parsed on their own
ParseAlphabet ==
    { L("result", "a", "ok"), L("result", "a", "FAILED"),
      L("result", "b", "ignored"), L("mixed", "b", "FAILED"),
      L("start", "b", None), L("starto", "b", None),
      L("word", None, "ok"), L("word", None, "error"), L("k", None, None),
      L("banner", None, None), L("indent", "a", None), L("blank", None, None),
      L("errline", None, None), L("ui", "a", "ok"),
      L("nxpass", "a", None), L("nxfail", "a", None), L("nxskip", "b", None),
      L("ansi", "a", "FAILED"), L("result", "ui/a", "FAILED"),
      L("indent", " a", None) }

\* lines of the stage logs of an analysis run
StageAlphabet ==
    { L("result", n, s) : n \in Names, s \in {"ok", "FAILED", "ignored"} }

\* the ParsedLog values the stage logs parse to
StageLogs == { parse_rust_log_file(t) : t \in Texts(StageAlphabet, MaxStageLines) }

\* the manifests: <<PASS_TO_PASS, FAIL_TO_PASS>>
Manifests ==
    { << <<"a">>, <<"b">> >>, << <<"b">>, <<"a">> >>,
      << <<"a", "b">>, << >> >>, << << >>, <<"b", "a">> >>,
      << <<"a">>, <<"a", "b">> >>, << <<"b">>, << >> >> }

(***************************************************************************)
(* analyze_logs: the three stage logs are parsed in turn, then the rules   *)
(* are evaluated.                                                          *)
(***************************************************************************)
DuplicateIdle ==
    /\ dpc = "idle"
    /\ raw_content = << >>
    /\ per_file = << >>
    /\ out = {}

MergeIdle ==
    /\ mpc = "idle"
    /\ chunk_results = << >>
    /\ test_status_map = << >>
    /\ final_results = << >>

RunIdle ==
    /\ file_paths = {}
    /\ fs = << >>
    /\ agent_parsed = NoneOpt
    /\ report_data = NoneOpt
    /\ err = NoneOpt

ChunkIdle ==
    /\ cpc = "idle"
    /\ log_content = << >>
    /\ chunk_size = 0
    /\ start = 0
    /\ log_chunks = << >>

AiIdle ==
    /\ opc = "idle"
    /\ chunk_index = 0
    /\ retry_count = 0
    /\ all_chunk_results = << >>
    /\ attempts = << >>
    /\ output_file = NoneOpt
    /\ ai_result = NoneOpt

ValidateIdle ==
    /\ vpc = "idle"
    /\ folder_link = None
    /\ tokens_file = None
    /\ target = None
    /\ folder_id = NoneOpt
    /\ instance_json_name = None
    /\ folder_files = << >>
    /\ log_files = << >>
    /\ files_to_download = << >>
    /\ validation = NoneOpt

ExtractorIdle ==
    /\ ppc = "idle"
    /\ lines = << >>
    /\ strategy = None
    /\ passed = {}
    /\ failed = {}
    /\ ignored = {}
    /\ all = {}

Init ==
    /\ ValidateIdle
    /\ AiIdle
    /\ ChunkIdle
    /\ pc = "parse_base"
    /\ \E m \in Manifests : pass_to_pass = m[1] /\ fail_to_pass = m[2]
    /\ base_parsed = NoLog
    /\ before_parsed = NoLog
    /\ after_parsed = NoLog
    /\ analysis = NoResult
    /\ ExtractorIdle
    /\ DuplicateIdle
    /\ MergeIdle
    /\ RunIdle

ParseBase ==
    /\ pc = "parse_base"
    /\ \E p \in StageLogs : base_parsed' = p
    /\ pc' = "parse_before"
    /\ UNCHANGED <<pass_to_pass, fail_to_pass, before_parsed, after_parsed,
                   analysis, pvars, dvars, mvars, rvars, xvars>>

ParseBefore ==
    /\ pc = "parse_before"
    /\ \E p \in StageLogs : before_parsed' = p
    /\ pc' = "parse_after"
    /\ UNCHANGED <<pass_to_pass, fail_to_pass, base_parsed, after_parsed,
                   analysis, pvars, dvars, mvars, rvars, xvars>>

ParseAfter ==
    /\ pc = "parse_after"
    /\ \E p \in StageLogs : after_parsed' = p
    /\ pc' = "generate"
    /\ UNCHANGED <<pass_to_pass, fail_to_pass, base_parsed, before_parsed,
                   analysis, pvars, dvars, mvars, rvars, xvars>>

GenerateAnalysisResult ==
    /\ pc = "generate"
    /\ analysis' = generate_analysis_result(base_parsed, before_parsed,
                        after_parsed, pass_to_pass, fail_to_pass)
    /\ pc' = "done"
    /\ UNCHANGED <<pass_to_pass, fail_to_pass, base_parsed, before_parsed,
                   after_parsed, pvars, dvars, mvars, rvars, xvars>>

Next == ParseBase \/ ParseBefore \/ ParseAfter \/ GenerateAnalysisResult

Spec == Init /\ [][Next]_vars

(***************************************************************************)
(* parse_rust_log_file on one log, pass by pass.                           *)
(***************************************************************************)
AnalysisIdle ==
    /\ pc = "idle"
    /\ pass_to_pass = << >>
    /\ fail_to_pass = << >>
    /\ base_parsed = NoLog
    /\ before_parsed = NoLog
    /\ after_parsed = NoLog
    /\ analysis = NoResult

\* logs whose every line is a nextest PASS line, 6 lines or more
NextestRuns ==
    UNION {[1..m -> {L("nxpass", "a", None), L("nxpass", "b", None)}] :
              m \in 6..MaxNextestRun}

ParseInit ==
    /\ ValidateIdle
    /\ AiIdle
    /\ ChunkIdle
    /\ AnalysisIdle
    /\ DuplicateIdle
    /\ MergeIdle
    /\ RunIdle
    /\ ppc = "select"
    /\ lines \in Texts(ParseAlphabet, MaxLines) \cup NextestRuns
    /\ strategy = None
    /\ passed = {}
    /\ failed = {}
    /\ ignored = {}
    /\ all = {}

Sets == [passed |-> passed, failed |-> failed, ignored |-> ignored]

\* a pass replaces the three sets and moves on
Step(from, to, S) ==
    /\ ppc = from
    /\ passed' = S.passed
    /\ failed' = S.failed
    /\ ignored' = S.ignored
    /\ ppc' = to
    /\ UNCHANGED <<lines, strategy, all, avars, dvars, mvars, rvars, xvars>>

SelectStrategy ==
    /\ ppc = "select"
    /\ strategy' = select_strategy(lines)
    /\ ppc' = CASE strategy' = "Nextest" -> "nextest"
                [] strategy' = "SingleLineAnsi" -> "compact"
                [] OTHER -> "first"
    /\ UNCHANGED <<lines, passed, failed, ignored, all, avars, dvars, mvars,
                   rvars, xvars>>

NextestParse == Step("nextest", "collect", parse_nextest_log(lines))

SlCompactMatch ==
    Step("compact", "trailing", CompactMatch(strip_ansi_color_codes(lines), Sets, 0))

SlTrailingContent ==
    Step("trailing", "ui", TrailingContent(strip_ansi_color_codes(lines), Sets, 0))

SlUiMatch ==
    Step("ui", "windowed", UiMatch(strip_ansi_color_codes(lines), Sets, 0))

SlWindowedLookahead ==
    Step("windowed", "collect", WindowedLookahead(strip_ansi_color_codes(lines), Sets, 0))

StdFirstPass == Step("first", "second", FirstPass(lines, Sets, 0))

StdSecondPass == Step("second", "third", SecondPass(lines, Sets))

StdThirdPass == Step("third", "fourth", ThirdPass(lines, Sets, 0))

StdFourthPass == Step("fourth", "fifth", FourthPass(lines, Sets, 0))

StdFifthPass == Step("fifth", "failures", FifthPass(lines, Sets, 0))

StdFailuresBlock == Step("failures", "collect", FailuresBlock(lines, Sets, FALSE, 0))

\* the all set is built and the ParsedLog returned
Collect ==
    /\ ppc = "collect"
    /\ all' = all_of(Sets)
    /\ ppc' = "done"
    /\ UNCHANGED <<lines, strategy, passed, failed, ignored, avars, dvars, mvars,
                   rvars, xvars>>

ParseNext ==
    \/ SelectStrategy
    \/ NextestParse
    \/ SlCompactMatch \/ SlTrailingContent \/ SlUiMatch \/ SlWindowedLookahead
    \/ StdFirstPass \/ StdSecondPass \/ StdThirdPass \/ StdFourthPass
    \/ StdFifthPass \/ StdFailuresBlock
    \/ Collect

ParseSpec == ParseInit /\ [][ParseNext]_vars

(***************************************************************************)
(* detect_same_file_duplicates on one log.                                 *)
(***************************************************************************)

\* most blocks a scanned log is made of
MaxBlocks == 4

\* a run of n lines that are neither markers nor test lines
Filler(n) == [i \in 1..n |-> L("noise", None, None)]

\* the blocks: single lines, and runs that put 9, 10 and 11 lines between
\* the lines around them
Blocks ==
    { <<l>> : l \in { L("result", "a", "ok"), L("result", "a", "FAILED"),
                      L("result", "b", "ok"), L("running", "f", None),
                      L("running", "g", None), L("noise", None, None),
                      L("blank", None, None) } }
    \cup { Filler(8), Filler(9), Filler(10) }

RECURSIVE Flatten(_)
Flatten(bs) == IF bs = << >> THEN << >> ELSE Head(bs) \o Flatten(Tail(bs))

DupTexts == { Flatten(bs) : bs \in Texts(Blocks, MaxBlocks) }

DupInit ==
    /\ ValidateIdle
    /\ AiIdle
    /\ ChunkIdle
    /\ AnalysisIdle
    /\ ExtractorIdle
    /\ MergeIdle
    /\ RunIdle
    /\ dpc = "scan"
    /\ raw_content \in DupTexts
    /\ per_file = << >>
    /\ out = {}

\* an empty text returns at once; otherwise the lines are scanned
ScanLines ==
    /\ dpc = "scan"
    /\ IF raw_content = << >>
       THEN /\ per_file' = per_file
            /\ dpc' = "done"
       ELSE /\ per_file' = scan_lines(raw_content, 0, "unknown", << >>)
            /\ dpc' = "group"
    /\ UNCHANGED <<raw_content, out, avars, pvars, mvars, rvars, xvars>>

\* the occurrences are grouped by name, file by file, and the true
\* duplicates reported
ReportDuplicates ==
    /\ dpc = "group"
    /\ out' = report_duplicates(per_file)
    /\ dpc' = "done"
    /\ UNCHANGED <<raw_content, per_file, avars, pvars, mvars, rvars, xvars>>

DupNext == ScanLines \/ ReportDuplicates

DupSpec == DupInit /\ [][DupNext]_vars

(***************************************************************************)
(* analyze_logs on a set of files, main.json found and read.               *)
(***************************************************************************)
RunManifests == { <<<<"a">>, <<"b">>>>, <<<<"b">>, <<"a">>>> }

\* log texts: one result; a repeated, contradictory result; two tests; an
\* ignored test
RunLogs ==
    [ single |-> <<L("result", "a", "ok")>>,
      repeated |-> <<L("result", "a", "ok"), L("result", "a", "FAILED")>>,
      two |-> <<L("result", "a", "FAILED"), L("result", "b", "ok")>>,
      ignored |-> <<L("result", "a", "ignored")>> ]

StageFiles == {Unreadable, Readable(RunLogs.single), Readable(RunLogs.repeated)}

AgentFiles == StageFiles \cup {Readable(RunLogs.two), Readable(RunLogs.ignored)}

Json(shape, entries) == [json |-> TRUE, value |-> [shape |-> shape, entries |-> entries]]

NotJson == [json |-> FALSE, value |-> [shape |-> "array", entries |-> << >>]]

ReportFiles ==
    { Unreadable, Readable(NotJson),
      Readable(Json("results", << <<"a", "FAILED">>, <<"b", "passed">> >>)),
      Readable(Json("direct", << <<"a", "pass">>, <<"b", "FAIL">> >>)),
      Readable(Json("swe", << <<"a", "failure">>, <<"b", "success">> >>)),
      Readable(Json("array", << <<"a", "failed">> >>)) }

DL(k, n) == [k |-> k, n |-> n]

GoldenFiles == {Unreadable, Readable(<<DL("call", "a")>>)}

TestDiffFiles ==
    { Readable(<<DL("fn", "a")>>), Readable(<<DL("call", "a")>>),
      Readable(<<DL("attr", "a"), DL("fnctx", "a")>>) }

\* a path is left out of file_paths or given with one of its files
Supplied(files) ==
    {[present |-> FALSE, file |-> Unreadable]}
        \cup {[present |-> TRUE, file |-> f] : f \in files}

RunInit ==
    /\ ValidateIdle
    /\ AiIdle
    /\ ChunkIdle
    /\ ExtractorIdle
    /\ DuplicateIdle
    /\ MergeIdle
    /\ pc = "find"
    /\ \E m \in RunManifests : pass_to_pass = m[1] /\ fail_to_pass = m[2]
    /\ base_parsed = NoLog
    /\ before_parsed = NoLog
    /\ after_parsed = NoLog
    /\ analysis = NoResult
    /\ agent_parsed = NoneOpt
    /\ report_data = NoneOpt
    /\ err = NoneOpt
    /\ \E b \in Supplied(StageFiles), be \in Supplied(StageFiles),
          a \in Supplied(StageFiles), ag \in Supplied(AgentFiles),
          r \in Supplied(ReportFiles), g \in Supplied(GoldenFiles),
          t \in Supplied(TestDiffFiles) :
          LET given == [p \in Paths |->
                          CASE p = BASE_LOG -> b [] p = BEFORE_LOG -> be
                            [] p = AFTER_LOG -> a [] p = AGENT_LOG -> ag
                            [] p = REPORT_JSON -> r [] p = GOLDEN_DIFF -> g
                            [] OTHER -> t]
          IN  /\ file_paths = {p \in Paths : given[p].present}
              /\ fs = [p \in Paths |-> given[p].file]

\* the log paths are looked up; without one of the three the run fails
FindLogFiles ==
    /\ pc = "find"
    /\ IF missing_required(file_paths)
       THEN /\ err' = Some(<<"Missing required log files (base.log, before.log, after.log)">>)
            /\ pc' = "failed"
       ELSE /\ err' = err
            /\ pc' = "parse_base"
    /\ UNCHANGED <<pass_to_pass, fail_to_pass, base_parsed, before_parsed,
                   after_parsed, analysis, file_paths, fs, agent_parsed,
                   report_data, pvars, dvars, mvars, xvars>>

\* let base_parsed = parse_rust_log_file(base_log.unwrap())?
ParseBaseLog ==
    /\ pc = "parse_base"
    /\ LET r == parse_log(fs, base_log(file_paths)[1])
       IN  IF r.ok
           THEN /\ base_parsed' = r.value
                /\ err' = err
                /\ pc' = "parse_before"
           ELSE /\ base_parsed' = base_parsed
                /\ err' = r.error
                /\ pc' = "failed"
    /\ UNCHANGED <<pass_to_pass, fail_to_pass, before_parsed, after_parsed, analysis,
                   file_paths, fs, agent_parsed, report_data, pvars, dvars,
                   mvars, xvars>>

\* let before_parsed = parse_rust_log_file(before_log.unwrap())?
ParseBeforeLog ==
    /\ pc = "parse_before"
    /\ LET r == parse_log(fs, before_log(file_paths)[1])
       IN  IF r.ok
           THEN /\ before_parsed' = r.value
                /\ err' = err
                /\ pc' = "parse_after"
           ELSE /\ before_parsed' = before_parsed
                /\ err' = r.error
                /\ pc' = "failed"
    /\ UNCHANGED <<pass_to_pass, fail_to_pass, base_parsed, after_parsed, analysis,
                   file_paths, fs, agent_parsed, report_data, pvars, dvars,
                   mvars, xvars>>

\* let after_parsed = parse_rust_log_file(after_log.unwrap())?
ParseAfterLog ==
    /\ pc = "parse_after"
    /\ LET r == parse_log(fs, after_log(file_paths)[1])
       IN  IF r.ok
           THEN /\ after_parsed' = r.value
                /\ err' = err
                /\ pc' = "parse_agent"
           ELSE /\ after_parsed' = after_parsed
                /\ err' = r.error
                /\ pc' = "failed"
    /\ UNCHANGED <<pass_to_pass, fail_to_pass, base_parsed, before_parsed, analysis,
                   file_paths, fs, agent_parsed, report_data, pvars, dvars,
                   mvars, xvars>>

\* the agent log, if its path is given: Some(parse_rust_log_file(path)?)
ParseAgentLog ==
    /\ pc = "parse_agent"
    /\ IF agent_log(file_paths) = NoneOpt
       THEN /\ agent_parsed' = NoneOpt
            /\ err' = err
            /\ pc' = "read_report"
       ELSE LET r == parse_log(fs, agent_log(file_paths)[1])
            IN  IF r.ok
                THEN /\ agent_parsed' = Some(r.value)
                     /\ err' = err
                     /\ pc' = "read_report"
                ELSE /\ agent_parsed' = agent_parsed
                     /\ err' = r.error
                     /\ pc' = "failed"
    /\ UNCHANGED <<pass_to_pass, fail_to_pass, base_parsed, before_parsed,
                   after_parsed, analysis, file_paths, fs, report_data,
                   pvars, dvars, mvars, xvars>>

\* report.json, if its path is given, is read and parsed
ReadReportJson ==
    /\ pc = "read_report"
    /\ report_data' = read_report(fs, file_paths)
    /\ pc' = "generate"
    /\ UNCHANGED <<pass_to_pass, fail_to_pass, base_parsed, before_parsed,
                   after_parsed, analysis, file_paths, fs, agent_parsed, err,
                   pvars, dvars, mvars, xvars>>

\* generate_analysis_result, and Ok(analysis_result)
GenerateReport ==
    /\ pc = "generate"
    /\ analysis' \in analysis_results(base_parsed, before_parsed, after_parsed,
                        agent_parsed, pass_to_pass, fail_to_pass, report_data,
                        file_paths, fs)
    /\ pc' = "done"
    /\ UNCHANGED <<pass_to_pass, fail_to_pass, base_parsed, before_parsed,
                   after_parsed, file_paths, fs, agent_parsed, report_data,
                   err, pvars, dvars, mvars, xvars>>

RunNext ==
    \/ FindLogFiles
    \/ ParseBaseLog \/ ParseBeforeLog \/ ParseAfterLog \/ ParseAgentLog
    \/ ReadReportJson
    \/ GenerateReport

RunSpec == RunInit /\ [][RunNext]_vars

\* the three logs on disk still parse to what analyze_logs parsed
LogsAsParsed ==
    /\ parse_log(fs, BASE_LOG) = [ok |-> TRUE, value |-> base_parsed, error |-> NoneOpt]
    /\ parse_log(fs, BEFORE_LOG) = [ok |-> TRUE, value |-> before_parsed, error |-> NoneOpt]
    /\ parse_log(fs, AFTER_LOG) = [ok |-> TRUE, value |-> after_parsed, error |-> NoneOpt]

\* another process rewrites or removes one of the three logs after they
\* were parsed and before the rules are evaluated
ChangeLogFile ==
    /\ pc = "generate"
    /\ LogsAsParsed
    /\ \E p \in {BASE_LOG, BEFORE_LOG, AFTER_LOG}, f \in StageFiles :
          /\ f # fs[p]
          /\ fs' = [fs EXCEPT ![p] = f]
    /\ UNCHANGED <<pc, pass_to_pass, fail_to_pass, base_parsed, before_parsed,
                   after_parsed, analysis, file_paths, agent_parsed,
                   report_data, err, pvars, dvars, mvars, xvars>>

RunEnvNext == RunNext \/ ChangeLogFile

RunEnvSpec == RunInit /\ [][RunEnvNext]_vars

(***************************************************************************)
(* merge_chunk_results on the results of the chunks of one log.            *)
(***************************************************************************)

\* most chunks of a log, most results in a chunk
MaxChunks == 2

MaxChunkLen == 2

TS(n, s) == [test_name |-> n, status |-> s]

\* the results a chunk can hold: the three statuses of the response schema
ChunkAlphabet ==
    {TS("t", "passed"), TS("t", "failed"), TS("t", "non_existing"),
     TS("u", "passed")}

ChunkInputs == Texts(Texts(ChunkAlphabet, MaxChunkLen), MaxChunks)

\* the tests asked for, with their types
all_tests == << <<"fail_to_pass", "t">> >>

MergeInit ==
    /\ ValidateIdle
    /\ AiIdle
    /\ ChunkIdle
    /\ AnalysisIdle
    /\ ExtractorIdle
    /\ DuplicateIdle
    /\ RunIdle
    /\ mpc = "merge"
    /\ chunk_results \in ChunkInputs
    /\ test_status_map = << >>
    /\ final_results = << >>

\* the loops over the chunks and their results
MergeChunks ==
    /\ mpc = "merge"
    /\ test_status_map' = merge_chunks(chunk_results, test_status_map)
    /\ mpc' = "collect"
    /\ UNCHANGED <<chunk_results, final_results, avars, pvars, dvars, rvars, xvars>>

\* the map is turned into TestStatus values and sorted
CollectResults ==
    /\ mpc = "collect"
    /\ final_results' = sorted_results(test_status_map, all_tests)
    /\ mpc' = "done"
    /\ UNCHANGED <<chunk_results, test_status_map, avars, pvars, dvars, rvars, xvars>>

MergeNext == MergeChunks \/ CollectResults

MergeSpec == MergeInit /\ [][MergeNext]_vars

(***************************************************************************)
(* parse_rust_log_file on logs long enough for the lookahead limits to     *)
(* matter: a log of blank lines with a few written ones.                   *)
(***************************************************************************)

\* the log of n lines that has the lines of at (0-based index -> line) and
\* blank lines elsewhere
Marked(n, at) ==
    [i \in 1..n |-> IF (i - 1) \in DOMAIN at THEN at[i - 1] ELSE L("blank", None, None)]

\* "test b ..." at line 0 and a status on a line of its own at the last line,
\* with or without the start of another test at line 10
DeferredLogs ==
    { Marked(p + 1, (0 :> L("start", "b", None)) @@ (10 :> mid) @@ (p :> L("word", None, "ok"))) :
        p \in {199, 200, 9999, 10000},
        mid \in {L("blank", None, None), L("starto", "a", None)} }

\* "test b ..." at line 0 and a status inside logging output at the last line
RescanLogs ==
    { Marked(p + 1, (0 :> L("start", "b", None)) @@ (p :> L("log", None, "FAILED"))) :
        p \in {99, 100} }

\* "test b ... o" at line 0 and a split "o" / "k" pair at the last two lines
RepairLogs ==
    { Marked(p + 2, (0 :> L("starto", "b", None)) @@ (p :> L("o", None, None))
                       @@ (p + 1 :> L("k", None, None))) :
        p \in {10, 11} }

LookaheadInit ==
    /\ ValidateIdle
    /\ AiIdle
    /\ ChunkIdle
    /\ AnalysisIdle
    /\ DuplicateIdle
    /\ MergeIdle
    /\ RunIdle
    /\ \/ /\ ppc = "select"
          /\ lines \in Texts(ParseAlphabet, MaxLines - 1) \cup RepairLogs
       \/ /\ ppc = "deferred"
          /\ lines \in DeferredLogs
       \/ /\ ppc = "rescan"
          /\ lines \in RescanLogs
    /\ strategy = None
    /\ passed = {}
    /\ failed = {}
    /\ ignored = {}
    /\ all = {}

\* the second pass on its own, on a log no earlier pass takes a test from
DeferredLookahead == Step("deferred", "looked", SecondPass(lines, Sets))

\* the fourth pass on its own, on a log no earlier pass takes a test from
BroadRescan == Step("rescan", "rescanned", FourthPass(lines, Sets, 0))

LookaheadNext == ParseNext \/ DeferredLookahead \/ BroadRescan

\* a pass that has begun runs to its end, so an extraction that has been
\* started does not stop between two passes
LookaheadSpec ==
    LookaheadInit /\ [][LookaheadNext]_vars /\ WF_vars(ParseNext)

(***************************************************************************)
(* chunk_log_content on one log, one turn of its loop at a time.           *)
(***************************************************************************)

\* longest log handed to chunk_log_content, in bytes
MaxContent == 5

\* largest chunk_size
MaxChunkSize == 4

\* the UTF-8 strings of at most n bytes
Utf8Texts(n) ==
    { s \in Texts({"x", "\n", "C3", "A9"}, n) :
        \A p \in 1..Len(s) :
            /\ s[p] = "C3" => p < Len(s) /\ s[p + 1] = "A9"
            /\ s[p] = "A9" => p > 1 /\ s[p - 1] = "C3" }

ChunkInit ==
    /\ ValidateIdle
    /\ AiIdle
    /\ AnalysisIdle
    /\ ExtractorIdle
    /\ DuplicateIdle
    /\ MergeIdle
    /\ RunIdle
    /\ cpc = "begin"
    /\ log_content \in Utf8Texts(MaxContent)
    /\ chunk_size \in 1..MaxChunkSize
    /\ start = 0
    /\ log_chunks = << >>

\* content no longer than a chunk is returned whole
ChunkWhole ==
    /\ cpc = "begin"
    /\ Len(log_content) <= chunk_size
    /\ log_chunks' = <<log_content>>
    /\ cpc' = "returned"
    /\ UNCHANGED <<log_content, chunk_size, start, avars, pvars, dvars, mvars,
                   rvars, ovars, gvars>>

\* longer content enters the loop
ChunkEnter ==
    /\ cpc = "begin"
    /\ Len(log_content) > chunk_size
    /\ cpc' = "loop"
    /\ UNCHANGED <<log_content, chunk_size, start, log_chunks, avars, pvars,
                   dvars, mvars, rvars, ovars, gvars>>

\* one turn of the loop: the end of the chunk is found and the chunk pushed
ChunkTurn ==
    /\ cpc = "loop"
    /\ start < Len(log_content)
    /\ LET found == chunk_end(log_content, chunk_size, start)
           end == found[1]
       IN  IF found = NoneOpt
           THEN /\ cpc' = "panicked"
                /\ UNCHANGED <<start, log_chunks>>
           ELSE /\ log_chunks' = IF end > start
                                 THEN Append(log_chunks, SubSeq(log_content, start + 1, end))
                                 ELSE log_chunks
                /\ start' = end
                /\ cpc' = IF end >= Len(log_content) THEN "returned" ELSE "loop"
    /\ UNCHANGED <<log_content, chunk_size, avars, pvars, dvars, mvars, rvars,
                   ovars, gvars>>

ChunkNext == ChunkWhole \/ ChunkEnter \/ ChunkTurn

ChunkSpec == ChunkInit /\ [][ChunkNext]_vars

(***************************************************************************)
(* analyze_log_with_openai on one log: the chunks are handed to            *)
(* process_log_chunk one after the other, then the merged result is        *)
(* written.                                                                *)
(***************************************************************************)

\* most chunks of a log
MaxAiChunks == 2

\* what process_log_chunk returns for a chunk when it succeeds
AiChunkResults == { <<TS("t", "passed")>>, <<TS("t", "failed")>> }

AiInit ==
    /\ ValidateIdle
    /\ ChunkIdle
    /\ AnalysisIdle
    /\ ExtractorIdle
    /\ DuplicateIdle
    /\ MergeIdle
    /\ RunIdle
    /\ opc = "read"
    /\ chunk_index = 0
    /\ retry_count = 0
    /\ all_chunk_results = << >>
    /\ attempts = << >>
    /\ output_file = NoneOpt
    /\ ai_result = NoneOpt

\* fs::read_to_string(log_path) and chunk_log_content: the log cannot be
\* read, or it is cut into one chunk or more (the chunks are numbered)
ReadAndChunk ==
    /\ opc = "read"
    /\ \/ /\ ai_result' = Some("Err: failed to read log file")
          /\ opc' = "returned"
          /\ UNCHANGED log_chunks
       \/ /\ \E n \in 1..MaxAiChunks : log_chunks' = [k \in 1..n |-> k]
          /\ opc' = "process"
          /\ UNCHANGED ai_result
    /\ UNCHANGED <<chunk_index, retry_count, all_chunk_results, attempts,
                   output_file, cpc, log_content, chunk_size, start, avars,
                   pvars, dvars, mvars, rvars, gvars>>

\* process_log_chunk returns Ok: the result is pushed and the loop moves to
\* the next chunk, with a retry_count of its own
ProcessChunkOk ==
    /\ opc = "process"
    /\ \E result \in AiChunkResults :
          all_chunk_results' = Append(all_chunk_results, result)
    /\ attempts' = Append(attempts, <<chunk_index + 1, "Ok">>)
    /\ chunk_index' = chunk_index + 1
    /\ retry_count' = 0
    /\ opc' = IF chunk_index + 1 = Len(log_chunks) THEN "write" ELSE "process"
    /\ UNCHANGED <<output_file, ai_result, cpc, log_content, chunk_size, start,
                   log_chunks, avars, pvars, dvars, mvars, rvars, gvars>>

\* process_log_chunk returns Err: the chunk is tried again after 2 seconds,
\* or the analysis gives up
ProcessChunkErr ==
    /\ opc = "process"
    /\ attempts' = Append(attempts, <<chunk_index + 1, "Err">>)
    /\ retry_count' = retry_count + 1
    /\ IF gives_up(retry_count')
       THEN /\ ai_result' = Some("Err: failed to process chunk")
            /\ opc' = "returned"
       ELSE UNCHANGED <<ai_result, opc>>
    /\ UNCHANGED <<chunk_index, all_chunk_results, output_file, cpc, log_content,
                   chunk_size, start, log_chunks, avars, pvars, dvars, mvars,
                   rvars, gvars>>

\* the results are merged and written to output_path; creating the
\* directory or writing the file can fail
WriteAnalysisFile ==
    /\ opc = "write"
    /\ \/ /\ output_file' = Some(merge_chunk_results(all_chunk_results, all_tests))
          /\ ai_result' = Some("Ok")
       \/ /\ ai_result' = Some("Err: failed to write analysis file")
          /\ UNCHANGED output_file
    /\ opc' = "returned"
    /\ UNCHANGED <<chunk_index, retry_count, all_chunk_results, attempts, cpc,
                   log_content, chunk_size, start, log_chunks, avars, pvars,
                   dvars, mvars, rvars, gvars>>

AiNext == ReadAndChunk \/ ProcessChunkOk \/ ProcessChunkErr \/ WriteAnalysisFile

AiSpec == AiInit /\ [][AiNext]_vars

(***************************************************************************)
(* validate_deliverable on one link: the folder ID, the tokens, the        *)
(* metadata of the target, the listing of the folder, the listing of its   *)
(* logs folder, the report of its results folder.                          *)
(***************************************************************************)
Entry(id, name, mime) == [id |-> id, name |-> name, mimeType |-> mime]

FolderLinks ==
    { "https://drive.google.com/drive/folders/F?usp=sharing",
      "https://drive.google.com/open?id=F",
      "https://drive.google.com/file/d/F/view" }

TokenFiles == {"absent", "unparsable", "tokens"}

Targets ==
    { [reachable |-> FALSE, mimeType |-> None, name |-> None] }
    \cup { [reachable |-> TRUE, mimeType |-> m, name |-> n] :
             m \in {FOLDER_MIME, "text/plain"}, n \in {"inst", "inst v2", ""} }

\* entries a deliverable folder can hold
FolderShapes ==
    << Entry(1, "inst.json", "application/json"), Entry(2, "inst.json", FOLDER_MIME),
       Entry(3, "Logs", FOLDER_MIME), Entry(4, "logs", "text/plain"),
       Entry(5, "results", FOLDER_MIME), Entry(6, "notes.txt", "text/plain") >>

\* entries a logs folder can hold
LogShapes ==
    << Entry(11, "I_AFTER.LOG", "text/plain"), Entry(12, "i_before.log", "text/plain"),
       Entry(13, "i_base.log", "text/plain"),
       Entry(14, "i_post_agent_patch.log", "text/plain"),
       Entry(15, "i_after.log", FOLDER_MIME), Entry(16, "i_before.log", FOLDER_MIME),
       Entry(17, "i_base.log", FOLDER_MIME),
       Entry(18, "i_post_agent_patch.log", FOLDER_MIME) >>

\* entries a results folder can hold
ResultShapes ==
    << Entry(21, "report.json", "application/json"), Entry(22, "report.json", FOLDER_MIME) >>

\* the listings made of some of the shapes, in their order or in the
\* opposite one
Listings(shapes) ==
    { SelectSeq(order, LAMBDA e : e.id \in ids) :
        ids \in SUBSET {shapes[k].id : k \in 1..Len(shapes)},
        order \in {shapes, [k \in 1..Len(shapes) |-> shapes[Len(shapes) + 1 - k]]} }

Ok == <<"Ok">>

Failed(message) == <<"Err", message>>

ValidateInit ==
    /\ ChunkIdle
    /\ AiIdle
    /\ AnalysisIdle
    /\ ExtractorIdle
    /\ DuplicateIdle
    /\ MergeIdle
    /\ RunIdle
    /\ vpc = "link"
    /\ folder_link \in FolderLinks
    /\ tokens_file \in TokenFiles
    /\ target \in Targets
    /\ folder_id = NoneOpt
    /\ instance_json_name = None
    /\ folder_files = << >>
    /\ log_files = << >>
    /\ files_to_download = << >>
    /\ validation = NoneOpt

\* the function returns Err(message)
ReturnErr(message) ==
    /\ validation' = Failed(message)
    /\ vpc' = "returned"

ExtractFolderId ==
    /\ vpc = "link"
    /\ folder_id' = extract_drive_folder_id(folder_link)
    /\ IF folder_id' = NoneOpt
       THEN ReturnErr("Invalid Google Drive folder link")
       ELSE vpc' = "tokens" /\ UNCHANGED validation
    /\ UNCHANGED <<folder_link, tokens_file, target, instance_json_name,
                   folder_files, log_files, files_to_download, avars, pvars,
                   dvars, mvars, rvars, cvars, ovars>>

LoadTokens ==
    /\ vpc = "tokens"
    /\ CASE tokens_file = "absent" ->
               ReturnErr("Please authenticate with Google Drive first")
         [] tokens_file = "unparsable" -> ReturnErr("Token parse error")
         [] OTHER -> vpc' = "metadata" /\ UNCHANGED validation
    /\ UNCHANGED <<folder_link, tokens_file, target, folder_id,
                   instance_json_name, folder_files, log_files,
                   files_to_download, avars, pvars, dvars, mvars, rvars, cvars,
                   ovars>>

\* get_folder_metadata, once more after a refresh of the token when it
\* fails; then the folder check and the instance name
GetFolderMetadata ==
    /\ vpc = "metadata"
    /\ \E expired \in BOOLEAN, refreshed \in BOOLEAN :
          IF expired /\ ~refreshed
          THEN ReturnErr("Token refresh failed") /\ UNCHANGED instance_json_name
          ELSE IF ~target.reachable
          THEN ReturnErr("Failed to get folder metadata") /\ UNCHANGED instance_json_name
          ELSE IF target.mimeType # FOLDER_MIME
          THEN ReturnErr("The provided link is not a folder") /\ UNCHANGED instance_json_name
          ELSE IF instance_name(target.name) = NoneOpt
          THEN ReturnErr("Could not extract instance name") /\ UNCHANGED instance_json_name
          ELSE /\ instance_json_name' = json_name(instance_name(target.name)[1])
               /\ vpc' = "contents"
               /\ UNCHANGED validation
    /\ UNCHANGED <<folder_link, tokens_file, target, folder_id, folder_files,
                   log_files, files_to_download, avars, pvars, dvars, mvars,
                   rvars, cvars, ovars>>

\* get_folder_contents of the folder, then Rule 3 and the logs folder of
\* Rule 4
GetFolderContents ==
    /\ vpc = "contents"
    /\ \/ /\ ReturnErr("Folder not found")
          /\ UNCHANGED folder_files
       \/ /\ folder_files' \in Listings(FolderShapes)
          /\ IF ~has_instance_json(folder_files', instance_json_name)
             THEN ReturnErr("Missing required file")
             ELSE IF logs_folder(folder_files') = NoneOpt
             THEN ReturnErr("Missing required 'logs' folder")
             ELSE vpc' = "logs" /\ UNCHANGED validation
    /\ UNCHANGED <<folder_link, tokens_file, target, folder_id,
                   instance_json_name, log_files, files_to_download, avars,
                   pvars, dvars, mvars, rvars, cvars, ovars>>

\* get_folder_contents of the logs folder, the four required logs of Rule 4,
\* and the instance JSON and the logs pushed to files_to_download
GetLogsContents ==
    /\ vpc = "logs"
    /\ \/ /\ ReturnErr("Folder not found")
          /\ UNCHANGED <<log_files, files_to_download>>
       \/ /\ log_files' \in Listings(LogShapes)
          /\ IF \E k \in 1..Len(required_suffixes) :
                    ~has_file(log_files', required_suffixes[k])
             THEN ReturnErr("Missing required log file") /\ UNCHANGED files_to_download
             ELSE /\ files_to_download' =
                         required_files(folder_files, log_files', instance_json_name)
                  /\ vpc' = "results"
                  /\ UNCHANGED validation
    /\ UNCHANGED <<folder_link, tokens_file, target, folder_id,
                   instance_json_name, folder_files, avars, pvars, dvars,
                   mvars, rvars, cvars, ovars>>

\* the report.json of the results folder is added when there is one, and
\* the function returns Ok
AddReport ==
    /\ vpc = "results"
    /\ IF results_folder(folder_files) = NoneOpt
       THEN UNCHANGED files_to_download
       ELSE \/ UNCHANGED files_to_download
            \/ \E listing \in Listings(ResultShapes) :
                  files_to_download' = files_to_download
                      \o push_found(<<report_file(listing)>>, "results")
    /\ validation' = Ok
    /\ vpc' = "returned"
    /\ UNCHANGED <<folder_link, tokens_file, target, folder_id,
                   instance_json_name, folder_files, log_files, avars, pvars,
                   dvars, mvars, rvars, cvars, ovars>>

ValidateNext ==
    \/ ExtractFolderId \/ LoadTokens \/ GetFolderMetadata
    \/ GetFolderContents \/ GetLogsContents \/ AddReport

ValidateSpec == ValidateInit /\ [][ValidateNext]_vars

(***************************************************************************)
(* Properties.                                                             *)
(***************************************************************************)
Done == pc = "done"

Parsed == ppc = "done"

P2P == Range(pass_to_pass)

F2P == Range(fail_to_pass)

Universe == P2P \cup F2P

Statuses == {"failed", "passed", "ignored", "missing"}

\* C1: the passed, failed and ignored sets of the ParsedLog of any log are
\* pairwise disjoint, whichever strategy extracted them.
C1_PairwiseDisjoint ==
    Parsed => /\ passed \cap failed = {}
              /\ passed \cap ignored = {}
              /\ failed \cap ignored = {}

\* C2: the all set of the ParsedLog of any log is exactly the union of its
\* passed, failed and ignored sets, whichever strategy extracted them.
C2_AllIsUnion ==
    Parsed => all = passed \cup failed \cup ignored

\* a log whose three sets all contribute names to all
C2_Witness ==
    Parsed /\ passed # {} /\ failed # {} /\ ignored # {} /\ all # {}

\* the status the precedence failed > passed > ignored > missing gives name t
\* in a ParsedLog
Resolves(t, log, st) ==
    /\ st \in Statuses
    /\ t \in log.failed => st = "failed"
    /\ t \notin log.failed /\ t \in log.passed => st = "passed"
    /\ t \notin log.failed \cup log.passed /\ t \in log.ignored => st = "ignored"
    /\ t \notin log.failed \cup log.passed \cup log.ignored => st = "missing"

RowResolves(t, row) ==
    /\ Resolves(t, base_parsed, row.base)
    /\ Resolves(t, before_parsed, row.before)
    /\ Resolves(t, after_parsed, row.after)

\* C3: every name of the universe gets exactly one status out of failed,
\* passed, ignored, missing at every stage, with precedence failed > passed
\* > ignored > missing: a name in both the failed and the passed set is
\* failed, a name in no set is missing.
C3_StatusPrecedence ==
    Done => /\ \A t \in P2P : RowResolves(t, analysis.p2p_analysis[t])
            /\ \A t \in F2P : RowResolves(t, analysis.f2p_analysis[t])

\* a P2P name in both the failed and the passed set of the base log resolved
\* to failed, and a P2P name absent from the after log resolved to missing
C3_Witness ==
    /\ Done
    /\ \E t \in P2P : /\ t \in base_parsed.failed \cap base_parsed.passed
                      /\ analysis.p2p_analysis[t].base = "failed"
    /\ \E t \in P2P : /\ t \notin after_parsed.all
                      /\ analysis.p2p_analysis[t].after = "missing"

\* a P2P test is rejected: not passed in both base and after, missing in
\* base, and not passed in before
Rejected(t) ==
    LET row == analysis.p2p_analysis[t]
    IN  /\ ~(row.base = "passed" /\ row.after = "passed")
        /\ row.base = "missing"
        /\ row.before # "passed"

\* C4: the rejection flag is true exactly when some P2P test is rejected,
\* whatever the F2P statuses and the outcomes of the rules.
C4_RejectionFlag ==
    Done => (analysis.satisfied <=> \E t \in P2P : Rejected(t))

\* the flag is raised by a single rejected P2P test while no F2P test is
\* rejected and C1 reports nothing
C4_Witness ==
    /\ Done
    /\ analysis.satisfied
    /\ Len(analysis.p2p_rejected) = 1
    /\ F2P # {}
    /\ analysis.f2p_rejected = << >>
    /\ ~analysis.c1.has_problem

\* C5: every P2P test is in exactly one of the lists p2p_ignored,
\* p2p_rejected, p2p_considered_but_ok: ignored when passed in base and
\* after, else rejected when missing in base and not passed in before, else
\* ok; p2p_considered is the disjoint union of the rejected and the ok list.
C5_P2PPartition ==
    Done =>
      /\ \A t \in P2P :
            LET row == analysis.p2p_analysis[t]
                ign == row.base = "passed" /\ row.after = "passed"
            IN  /\ t \in Range(analysis.p2p_ignored) <=> ign
                /\ t \in Range(analysis.p2p_rejected) <=> Rejected(t)
                /\ t \in Range(analysis.p2p_considered_but_ok)
                      <=> (~ign /\ ~Rejected(t))
      /\ Range(analysis.p2p_considered) =
            Range(analysis.p2p_rejected) \cup Range(analysis.p2p_considered_but_ok)
      /\ Range(analysis.p2p_rejected) \cap Range(analysis.p2p_considered_but_ok) = {}

\* the tests cited by the C4 examples
C4Cited == {analysis.c4.examples[i][1] : i \in 1..Len(analysis.c4.examples)}

\* a P2P test violates C4: missing in base and not passed in before
C4Violates(t) ==
    /\ analysis.p2p_analysis[t].base = "missing"
    /\ analysis.p2p_analysis[t].before # "passed"

\* C6: C4 has a problem exactly when some P2P test is missing in base and
\* not passed in before; the examples cite each such test and no other (a
\* test passed in base, or missing in base and passed in before, is none).
C6_RuleC4 ==
    Done => /\ analysis.c4.has_problem <=> \E t \in P2P : C4Violates(t)
            /\ C4Cited = {t \in P2P : C4Violates(t)}

\* C4 cites a P2P test missing in base and ignored in before, and leaves
\* out a P2P test missing in base and passed in before
C6_Witness ==
    /\ Done
    /\ analysis.c4.has_problem
    /\ \E t \in C4Cited : /\ analysis.p2p_analysis[t].base = "missing"
                          /\ analysis.p2p_analysis[t].before = "ignored"
    /\ \E t \in P2P \ C4Cited : /\ analysis.p2p_analysis[t].base = "missing"
                                /\ analysis.p2p_analysis[t].before = "passed"

\* C7: C1 has a problem exactly when some P2P test is failed in base, and
\* its examples are exactly these P2P tests.
C7_RuleC1 ==
    Done => /\ analysis.c1.has_problem
                <=> \E t \in P2P : analysis.p2p_analysis[t].base = "failed"
            /\ Range(analysis.c1.examples)
                = {t \in P2P : analysis.p2p_analysis[t].base = "failed"}

\* C1 cites a P2P test failed in base and leaves out an F2P test failed in
\* base
C7_Witness ==
    /\ Done
    /\ analysis.c1.has_problem
    /\ \E t \in F2P \ P2P : /\ analysis.f2p_analysis[t].base = "failed"
                            /\ t \notin Range(analysis.c1.examples)

\* the status of a universe test in after
AfterOf(t) ==
    IF t \in P2P THEN analysis.p2p_analysis[t].after
    ELSE analysis.f2p_analysis[t].after

\* C8: C2 has a problem exactly when some test of the universe is failed in
\* after, and its examples are exactly these tests.
C8_RuleC2 ==
    Done => /\ analysis.c2.has_problem
                <=> \E t \in Universe : AfterOf(t) = "failed"
            /\ Range(analysis.c2.examples)
                = {t \in Universe : AfterOf(t) = "failed"}

\* C2 cites an F2P test failed in after and leaves out a test ignored in
\* after
C8_Witness ==
    /\ Done
    /\ \E t \in F2P \ P2P : t \in Range(analysis.c2.examples)
    /\ \E t \in Universe : /\ AfterOf(t) = "ignored"
                           /\ t \notin Range(analysis.c2.examples)

\* C9: C3 has a problem exactly when some F2P test is passed in before, and
\* its examples are exactly these F2P tests.
C9_RuleC3 ==
    Done => /\ analysis.c3.has_problem
                <=> \E t \in F2P : analysis.f2p_analysis[t].before = "passed"
            /\ Range(analysis.c3.examples)
                = {t \in F2P : analysis.f2p_analysis[t].before = "passed"}

\* C3 cites an F2P test passed in before and leaves out a P2P test passed
\* in before
C9_Witness ==
    /\ Done
    /\ analysis.c3.has_problem
    /\ \E t \in P2P \ F2P : /\ analysis.p2p_analysis[t].before = "passed"
                            /\ t \notin Range(analysis.c3.examples)

\* C10: every F2P test is in exactly one of the lists f2p_ignored,
\* f2p_rejected, f2p_considered_but_ok, whatever its status in after.
C10_F2PPartition ==
    Done =>
      \A t \in F2P :
        LET i == IF t \in Range(analysis.f2p_ignored) THEN 1 ELSE 0
            r == IF t \in Range(analysis.f2p_rejected) THEN 1 ELSE 0
            o == IF t \in Range(analysis.f2p_considered_but_ok) THEN 1 ELSE 0
        IN  i + r + o = 1

\* every universe test resolves to passed at base, before and after
AllPassed ==
    /\ \A t \in P2P : LET row == analysis.p2p_analysis[t]
                      IN  row.base = "passed" /\ row.before = "passed"
                          /\ row.after = "passed"
    /\ \A t \in F2P : LET row == analysis.f2p_analysis[t]
                      IN  row.base = "passed" /\ row.before = "passed"
                          /\ row.after = "passed"

\* C11: when every universe test is passed in base, before and after, the
\* rejection flag is false, the P2P ignored list is the whole P2P list and
\* the F2P ignored list the whole F2P list, in manifest order, and the
\* rejected and ok lists of both partitions are empty.
C11_AllPassedScenario ==
    (Done /\ AllPassed) =>
        /\ ~analysis.satisfied
        /\ analysis.p2p_ignored = pass_to_pass
        /\ analysis.f2p_ignored = fail_to_pass
        /\ analysis.p2p_rejected = << >>
        /\ analysis.p2p_considered_but_ok = << >>
        /\ analysis.f2p_rejected = << >>
        /\ analysis.f2p_considered_but_ok = << >>

\* a run with tests in both partitions, all passed at the three stages
C11_Witness ==
    Done /\ AllPassed /\ P2P # {} /\ Len(fail_to_pass) = 2

Scanned == dpc = "done"

\* line i of the scanned log is a file-boundary marker
IsMarker(i) == detect_file_boundary(At(raw_content, i)) # NoneOpt

\* line i of the scanned log is an occurrence of a test
IsOccurrence(i) ==
    ~IsMarker(i) /\ extract_test_info_enhanced(At(raw_content, i)) # NoneOpt

NameAt(i) == extract_test_info_enhanced(At(raw_content, i))[1][1]

StatusAt(i) == to_lowercase(extract_test_info_enhanced(At(raw_content, i))[1][2])

\* the file context of line i: the most recent marker above it
FileContextAt(i) ==
    LET marks == {j \in 0..(i - 1) : IsMarker(j)}
    IN  IF marks = {} THEN "unknown"
        ELSE detect_file_boundary(At(raw_content, SetMax(marks)))[1]

\* the surrounding context of line i: the two lines above (when there are
\* two) and up to two lines below, as one trimmed text
SurroundingAt(i) ==
    LET n == Len(raw_content)
        above == IF i >= 2 THEN <<At(raw_content, i - 2), At(raw_content, i - 1)>>
                 ELSE << >>
        below == [j \in 1..(Min2(n, i + 3) - (i + 1)) |-> At(raw_content, i + j)]
    IN  trim(join(above) \o join(below))

\* the occurrences of name n in file context f
GroupOf(f, n) ==
    {i \in 0..(Len(raw_content) - 1) :
        IsOccurrence(i) /\ NameAt(i) = n /\ FileContextAt(i) = f}

Reported(f, n) == \E g \in out : g.file = f /\ g.name = n

FileContexts == {"unknown", "f", "g"}

\* C12: occurrences are grouped by (file context, test name), the file
\* context being the most recent boundary marker above the line ("unknown"
\* without one); a group is reported exactly when it has two occurrences or
\* more and (a) two of them are fewer than 10 lines apart, or (b) it holds
\* an ok and a failed/error status, or (c) all its occurrences have the same
\* non-empty surrounding context.
C12_TrueDuplicates ==
    Scanned =>
      /\ \A g \in out : g.file \in FileContexts /\ g.name \in Names
      /\ \A f \in FileContexts, n \in Names :
            LET G == GroupOf(f, n)
                close == \E i, j \in G : i < j /\ j - i < 10
                contradictory ==
                    /\ \E i \in G : StatusAt(i) = "ok"
                    /\ \E i \in G : StatusAt(i) \in {"failed", "error"}
                repeated ==
                    \A i, j \in G : /\ SurroundingAt(i) # << >>
                                    /\ SurroundingAt(i) = SurroundingAt(j)
            IN  Reported(f, n) <=>
                    (Cardinality(G) >= 2 /\ (close \/ contradictory \/ repeated))

\* a test reported ok at line 10 and failed at line 12 of one file context is
\* reported, while the other name, seen once, is not
C12_Witness ==
    /\ Scanned
    /\ Len(raw_content) >= 13
    /\ At(raw_content, 10) = L("result", "a", "ok")
    /\ At(raw_content, 12) = L("result", "a", "FAILED")
    /\ GroupOf(FileContextAt(10), "a") = {10, 12}
    /\ Reported(FileContextAt(10), "a")

\* the run returned a report
Returned == pc = "done" /\ analysis # NoResult

\* the stage logs of the run: base, before, after, and agent when supplied
StagePath(s) ==
    CASE s = "base" -> BASE_LOG [] s = "before" -> BEFORE_LOG
      [] s = "after" -> AFTER_LOG [] OTHER -> AGENT_LOG

StageLogsGiven == {s \in {"base", "before", "after", "agent"} : StagePath(s) \in file_paths}

\* the stage's log has a true duplicate
HasTrueDuplicate(s) ==
    /\ fs[StagePath(s)].ok
    /\ detect_same_file_duplicates(fs[StagePath(s)].content) # {}

\* C13: in a returned report C5 has a problem exactly when some stage log
\* (base, before, after, or the supplied agent log) has a true duplicate, the
\* keys of its examples are exactly the stages with duplicates, and no stage
\* has more than 50 examples.
C13_C5PerStage ==
    Returned =>
        /\ analysis.c5.has_problem <=> \E s \in StageLogsGiven : HasTrueDuplicate(s)
        /\ DOMAIN analysis.c5.duplicate_examples_per_log
              = {s \in StageLogsGiven : HasTrueDuplicate(s)}
        /\ \A s \in DOMAIN analysis.c5.duplicate_examples_per_log :
              Cardinality(analysis.c5.duplicate_examples_per_log[s]) <= 50

\* an agent log was supplied and parsed, report data was read and parsed
AgentAndReport == agent_parsed # NoneOpt /\ report_data # NoneOpt

\* the report and agent columns of the matrix row of a universe test
Column(t, col) ==
    IF t \in P2P THEN analysis.p2p_analysis[t][col]
    ELSE analysis.f2p_analysis[t][col]

\* failed on one side, passed on the other
Mismatch(t) ==
    <<Column(t, "report"), Column(t, "agent")>>
        \in {<<"failed", "passed">>, <<"passed", "failed">>}

\* C14: in a returned report C6 has no problem and no examples unless both an
\* agent log and report data are present; with both, C6 has a problem exactly
\* when some universe test is failed in the report and passed in the agent
\* log or the other way round, and its examples are exactly these tests.
C14_RuleC6 ==
    Returned =>
        /\ ~AgentAndReport =>
              ~analysis.c6.has_problem /\ analysis.c6.examples = << >>
        /\ AgentAndReport =>
              /\ analysis.c6.has_problem <=> \E t \in Universe : Mismatch(t)
              /\ {e[1] : e \in Range(analysis.c6.examples)}
                    = {t \in Universe : Mismatch(t)}

\* a test passed in the report and failed in the agent log, beside a test
\* with a report status that is no mismatch
C14_Witness ==
    /\ Returned
    /\ AgentAndReport
    /\ \E t \in Universe :
          <<Column(t, "report"), Column(t, "agent")>> = <<"passed", "failed">>
    /\ \E t \in Universe : Column(t, "report") \in {"failed", "passed"}
                                  /\ ~Mismatch(t)

\* the diff files supplied to the run
DiffsGiven == file_paths \cap {GOLDEN_DIFF, TEST_DIFF}

\* the lines of a supplied, readable diff
DiffLines(p) ==
    IF p \in file_paths /\ fs[p].ok THEN Range(fs[p].content) ELSE {}

\* the search key of test t occurs in the golden source diff
KeyInGolden(t) ==
    \E dl \in DiffLines(GOLDEN_DIFF) : dl.n = t /\ dl.k # "attr"

\* the test diff defines a function named by the search key of test t
DefinedInTestDiff(t) ==
    \E dl \in DiffLines(TEST_DIFF) : dl.n = t /\ dl.k \in {"fn", "fnsp", "fnctx"}

\* C15: in a returned report C7 has no problem and no examples when no diff
\* file is supplied; otherwise it has a problem exactly when the key of some
\* F2P test occurs in a golden source diff while no test diff defines a
\* function of that name, and its examples are exactly these tests.
C15_RuleC7 ==
    Returned =>
        /\ DiffsGiven = {} =>
              ~analysis.c7.has_problem /\ analysis.c7.examples = << >>
        /\ analysis.c7.has_problem
              <=> \E t \in F2P : KeyInGolden(t) /\ ~DefinedInTestDiff(t)
        /\ {e[1] : e \in Range(analysis.c7.examples)}
              = {t \in F2P : KeyInGolden(t) /\ ~DefinedInTestDiff(t)}

\* the key is in the golden diff and only called, not defined, in the test
\* diff
C15_Witness ==
    /\ Returned
    /\ analysis.c7.has_problem
    /\ \E t \in F2P :
          /\ KeyInGolden(t)
          /\ \E dl \in DiffLines(TEST_DIFF) : dl.n = t /\ dl.k = "call"

\* the run ended, with a report or with an error
Ended == pc \in {"done", "failed"}

\* a log the run requires is not among the paths or cannot be read
RequiredLogs == {BASE_LOG, BEFORE_LOG, AFTER_LOG}

Unavailable(p) == p \notin file_paths \/ ~fs[p].ok

\* C18: a run whose paths lack the base, before or after log, or one of
\* whose three logs cannot be read, ends with an error and no report.
C18_RequiredLogs ==
    (Ended /\ \E p \in RequiredLogs : Unavailable(p)) =>
        /\ pc = "failed"
        /\ err # NoneOpt
        /\ analysis = NoResult

\* a run that failed on an after log that is supplied and cannot be read,
\* after parsing the base and before logs
C18_Witness ==
    /\ pc = "failed"
    /\ RequiredLogs \subseteq file_paths
    /\ fs[BASE_LOG].ok /\ fs[BEFORE_LOG].ok /\ ~fs[AFTER_LOG].ok
    /\ err = Some(<<"Failed to read log file", AFTER_LOG>>)

\* the optional inputs that are supplied and cannot be used
AgentLogUnreadable == AGENT_LOG \in file_paths /\ ~fs[AGENT_LOG].ok

ReportUnusable ==
    /\ REPORT_JSON \in file_paths
    /\ ~fs[REPORT_JSON].ok \/ ~fs[REPORT_JSON].content.json

\* C19: a run whose base, before and after logs are readable ends with a
\* report even when the agent log cannot be read or the report cannot be
\* read or parsed; the report then has no C6 problem and the agent or report
\* column missing.
C19_OptionalInputs ==
    (Ended /\ (\A p \in RequiredLogs : ~Unavailable(p))
           /\ (AgentLogUnreadable \/ ReportUnusable)) =>
        /\ Returned
        /\ ~analysis.c6.has_problem
        /\ AgentLogUnreadable => \A t \in Universe : Column(t, "agent") = "missing"
        /\ ReportUnusable => \A t \in Universe : Column(t, "report") = "missing"

\* the file systems that differ from the present one in the content or the
\* readability of one of the three log files
OtherFileSystems ==
    {[fs EXCEPT ![p] = f] : p \in RequiredLogs, f \in StageFiles}

\* C20: a returned report is a value of the rule engine for the parsed logs,
\* the universe and the report data of the run under every content of the log
\* files at the time of evaluation: the files do not influence it.
C20_PureRuleEngine ==
    Returned =>
        \A g \in OtherFileSystems :
            analysis \in analysis_results(base_parsed, before_parsed,
                            after_parsed, agent_parsed, pass_to_pass,
                            fail_to_pass, report_data, file_paths, g)

\* C16: a parsed log was parsed by one strategy: Nextest when the nextest
\* test holds, else SingleLineAnsi when the ANSI/compact/UI-path test holds,
\* else Standard, and its sets are those of that strategy's extractor alone;
\* a log of 6 or more nextest PASS lines is parsed as Nextest.
C16_StrategyPriority ==
    Parsed =>
        /\ looks_nextest_format(lines) =>
              strategy = "Nextest" /\ Sets = parse_nextest_log(lines)
        /\ (~looks_nextest_format(lines) /\ looks_single_line_like(lines)) =>
              strategy = "SingleLineAnsi" /\ Sets = parse_rust_log_single_line(lines)
        /\ (~looks_nextest_format(lines) /\ ~looks_single_line_like(lines)) =>
              strategy = "Standard" /\ Sets = parse_standard(lines)
        /\ (Len(lines) >= 6 /\ \A i \in 1..Len(lines) : lines[i].k = "nxpass") =>
              strategy = "Nextest"

\* a log that meets both tests and that the two extractors read differently
C16_Witness ==
    /\ Parsed
    /\ looks_nextest_format(lines)
    /\ looks_single_line_like(lines)
    /\ strategy = "Nextest"
    /\ parse_nextest_log(lines) # parse_rust_log_single_line(lines)

\* the merge of the chunk results is finished
Merged == mpc = "done"

\* the results of all chunks in the order they are merged
ChunkReports == Flatten(chunk_results)

ReportedNames == {r.test_name : r \in Range(ChunkReports)}

StatusesOf(n) == {r.status : r \in {r \in Range(ChunkReports) : r.test_name = n}}

\* non_existing < passed < failed
Rank(s) == CASE s = "non_existing" -> 0 [] s = "passed" -> 1 [] s = "failed" -> 2

MaxStatus(n) ==
    CHOOSE s \in StatusesOf(n) : \A s2 \in StatusesOf(n) : Rank(s2) <= Rank(s)

ReverseSeq(s) == [i \in 1..Len(s) |-> s[Len(s) + 1 - i]]

\* the chunks in the opposite order, each with its results in the opposite
\* order
ReversedChunks ==
    ReverseSeq([i \in 1..Len(chunk_results) |-> ReverseSeq(chunk_results[i])])

\* C17: the merged results hold each reported test name once, with the
\* greatest of its reported statuses under non_existing < passed < failed,
\* and merging the chunks and their results in the opposite order gives the
\* same results.
C17_MergeIsMax ==
    Merged =>
        /\ {final_results[i].test_name : i \in 1..Len(final_results)} = ReportedNames
        /\ Len(final_results) = Cardinality(ReportedNames)
        /\ \A i \in 1..Len(final_results) :
              final_results[i].status = MaxStatus(final_results[i].test_name)
        /\ merge_chunk_results(ReversedChunks, all_tests) = final_results

\* a test reported failed first, then passed and non_existing, over two
\* chunks, beside a second test
C17_Witness ==
    /\ Merged
    /\ Len(chunk_results) = 2
    /\ StatusesOf("t") = {"failed", "passed", "non_existing"}
    /\ ChunkReports[1] = TS("t", "failed")
    /\ "u" \in ReportedNames
    /\ Len(final_results) = 2

\* C27: the acceptance decision and rule C4 agree: the rejection flag equals
\* C4 has_problem and the rejected P2P tests are the tests the C4 examples
\* cite.
C27_RejectionIsC4 ==
    Done => /\ analysis.satisfied = analysis.c4.has_problem
            /\ Range(analysis.p2p_rejected) = C4Cited

\* a rejected P2P test missing in base and in before, cited by C4, beside a
\* P2P test neither rejected nor cited
C27_Witness ==
    /\ Done
    /\ analysis.satisfied
    /\ \E t \in C4Cited : /\ t \in Range(analysis.p2p_rejected)
                          /\ analysis.p2p_analysis[t].before = "missing"
    /\ \E t \in P2P : t \notin C4Cited /\ t \notin Range(analysis.p2p_rejected)

\* the names some pass has placed in a status set
ClassifiedNames == passed \cup failed \cup ignored

\* a step of the extractor adds no classified name to a status set
FillsGaps ==
    \A n \in ClassifiedNames :
        /\ n \in passed' => n \in passed
        /\ n \in failed' => n \in failed
        /\ n \in ignored' => n \in ignored

\* C23: in the Standard strategy every pass after the first (deferred
\* lookahead, split-token repair, broad rescan, diagnostic-status scan,
\* failure-block scan) leaves the status sets of the names already
\* classified as they are.
C23_LaterPassesFillGaps ==
    [][(strategy = "Standard" /\ ppc # "first") => FillsGaps]_vars

\* C24: in the SingleLineAnsi strategy every sub-pass after the compact match
\* (trailing-content variant, path-based UI match, windowed lookahead, in
\* this order) leaves the status sets of the names already classified as
\* they are.
C24_LaterSubPassesFillGaps ==
    [][/\ (strategy = "SingleLineAnsi" /\ ppc # "compact") => FillsGaps
       /\ (ppc = "compact" => ppc' = "trailing")
       /\ (ppc = "trailing" => ppc' = "ui")
       /\ (ppc = "ui" => ppc' = "windowed")
       /\ (ppc = "windowed" => ppc' = "collect")]_vars

\* line i (from 1) is an indented line of a failures list: a "failures:"
\* banner comes before it with no blank line, "----" separator, "error:"
\* line or "test result:" line in between
InFailuresList(i) ==
    /\ lines[i].k = "indent"
    /\ \E j \in 1..(i - 1) :
          /\ lines[j].k = "banner"
          /\ \A m \in (j + 1)..(i - 1) :
                lines[m].k \notin {"blank", "sep", "errline", "summary"}

\* C25: the failure-block scan adds to the failed set only names of indented
\* lines between a "failures:" banner and the first blank line, "----"
\* separator, "error:" line or "test result:" line after it.
C25_FailureBlockStops ==
    [][ppc = "failures" =>
          failed' \ failed \subseteq
              {lines[i].n : i \in {i \in 1..Len(lines) : InFailuresList(i)}}]_vars

RECURSIVE SeqOf(_)
\* the elements of a finite set, one after the other
SeqOf(S) ==
    IF S = {} THEN << >>
    ELSE LET x == CHOOSE x \in S : TRUE IN <<x>> \o SeqOf(S \ {x})

\* the lines "test NAME ... STATUS" written for the names of a set, as the
\* first pass reads them
WrittenLines(S, status) ==
    LET names == SeqOf(S)
    IN  [i \in 1..Len(names) |-> L("result", test_line_name(names[i]), status)]

\* the clean reconstruction of the status sets
Reconstruction(S) ==
    WrittenLines(S.passed, "ok") \o WrittenLines(S.failed, "FAILED")
        \o WrittenLines(S.ignored, "ignored")

\* C26: the status sets of a log parsed by the Standard extractor are the
\* sets the Standard extractor gives for their clean reconstruction, one
\* line "test NAME ... STATUS" per classified name.
C26_StandardIdempotent ==
    (Parsed /\ strategy = "Standard") =>
        parse_standard(Reconstruction(Sets)) = Sets

\* line l is the complete result line of a test other than n
OtherTestResult(n, l) ==
    l.k \in {"result", "mixed", "ui", "ansi"} /\ l.n # n

\* the status word of a line that holds one, in lower case
StatusOnLine(l) ==
    IF l.k = "errline" THEN "error" ELSE to_lowercase(l.s)

\* the step puts n into the status set of a status word
PlacedAs(n, status) ==
    \/ status = "ok" /\ n \in passed'
    \/ status \in {"failed", "error"} /\ n \in failed'
    \/ status = "ignored" /\ n \in ignored'

\* C28: a test the deferred lookahead classifies has, after one of its own
\* test lines, a line that carries the status it is given and that is not
\* the complete result line of another test.
C28_LookaheadOwnStatus ==
    [][ppc = "second" =>
          \A n \in (passed' \cup failed' \cup ignored') \ ClassifiedNames :
              \E i \in 1..Len(lines) :
                  /\ TEST_START_RE(lines[i]) /\ lines[i].n = n
                  /\ \E j \in (i + 1)..Len(lines) :
                        /\ STATUS_AT_END_RE(lines[j]) \/ STATUS_AT_START_RE(lines[j])
                        /\ ~OtherTestResult(n, lines[j])
                        /\ PlacedAs(n, StatusOnLine(lines[j]))]_vars

\* the first n lines of a log
FirstLines(ls, n) == SubSeq(ls, 1, Min2(n, Len(ls)))

\* the names the step classifies
NewlyClassified == (passed' \cup failed' \cup ignored') \ ClassifiedNames

\* the deferred lookahead of the test n pending at line s: its first window
\* finds what it finds in the lines below s + 200, and the test ends with the
\* status the lookahead finds in the lines below s + 10,000
DeferredWithinLimits ==
    LET pend == pending_tests(lines, Sets)
    IN  \A n \in DOMAIN pend :
            LET s == pend[n]
                h == FirstLines(lines, s + 200)
                st == deferred_status(FirstLines(lines, s + 10000), n, s)
            IN  /\ Lookahead(lines, n, s, s + 1,
                             Min2(s + initial_limit, Len(lines)), 5)
                   = Lookahead(h, n, s, s + 1, Min2(s + initial_limit, Len(h)), 5)
                /\ \/ PlacedAs(n, st)
                   \/ st = None /\ n \notin NewlyClassified

\* the broad rescan of a test start at line i finds what it finds in the 100
\* lines from i on
RescanWithinLimits ==
    /\ \A i \in 0..(Len(lines) - 1) :
           TEST_STARTS_RE(At(lines, i)) =>
               rescan_status(lines, i) = rescan_status(FirstLines(lines, i + 100), i)
    /\ \A n \in NewlyClassified :
           \E i \in 0..(Len(lines) - 1) :
               /\ TEST_STARTS_RE(At(lines, i)) /\ At(lines, i).n = n
               /\ PlacedAs(n, rescan_status(FirstLines(lines, i + 100), i))

\* the split-token repair passes a test whose "test NAME ... o" line is
\* followed by "k", or lies at most 10 lines above an "o" / "k" pair
RepairWithinLimits ==
    \A n \in NewlyClassified :
        \E i \in 0..(Len(lines) - 2) :
            /\ TEST_WITH_O_RE(At(lines, i)) /\ At(lines, i).n = n
            /\ \/ At(lines, i + 1).k = "k"
               \/ \E j \in (i + 1)..Min2(i + 10, Len(lines) - 2) :
                      At(lines, j).k = "o" /\ At(lines, j + 1).k = "k"

\* C21: the extraction of a log ends, and its lookaheads stay inside their
\* windows: the deferred lookahead of a test pending at line s reads lines
\* below s + 200 in its first window and below s + 10,000 in its extended
\* one, the broad rescan reads at most 100 lines from s on, and the
\* split-token repair looks at most 10 lines back.
C21_BoundedLookahead ==
    /\ (ppc = "select") ~> (ppc = "done")
    /\ [][/\ ppc \in {"second", "deferred"} => DeferredWithinLimits
          /\ ppc = "third" => RepairWithinLimits
          /\ ppc \in {"fourth", "rescan"} => RescanWithinLimits]_vars

\* a status word at line 10,000 of a log whose line 0 starts test b: the
\* lookahead has run and b has no status
C21_Witness ==
    /\ ppc = "looked"
    /\ Len(lines) = 10001
    /\ At(lines, 0) = L("start", "b", None)
    /\ At(lines, 10000) = L("word", None, "ok")
    /\ "b" \notin ClassifiedNames

\* C30: for a chunk_size of 1 or more and a log that is not empty,
\* chunk_log_content returns (it does not panic), and what it returns is a
\* list of chunks, none empty and none longer than chunk_size, that put
\* together in order give the log; a log no longer than chunk_size comes
\* back as one chunk.
C30_ChunksPartitionContent ==
    (chunk_size >= 1 /\ Len(log_content) > 0) =>
        /\ cpc # "panicked"
        /\ cpc = "returned" =>
              /\ \A k \in 1..Len(log_chunks) :
                     Len(log_chunks[k]) > 0 /\ Len(log_chunks[k]) <= chunk_size
              /\ Flatten(log_chunks) = log_content
              /\ Len(log_content) <= chunk_size => Len(log_chunks) = 1

\* the attempts made on chunk c (numbered from 1), as positions in attempts
AttemptsOn(c) == {k \in 1..Len(attempts) : attempts[k][1] = c}

\* C29: the calls of process_log_chunk go through the chunks in order, a
\* chunk gets at most 4 of them and none after its first success, the next
\* chunk is begun only after a success; after a 4th failure the analysis has
\* returned an error with no later chunk tried and no file written; and a
\* file is written only when every chunk has succeeded.
C29_SequentialBoundedRetries ==
    /\ Len(attempts) > 0 => attempts[1][1] = 1
    /\ \A k \in 1..(Len(attempts) - 1) :
           attempts[k + 1][1] =
               IF attempts[k][2] = "Ok" THEN attempts[k][1] + 1 ELSE attempts[k][1]
    /\ \A c \in 1..Len(log_chunks) : Cardinality(AttemptsOn(c)) <= 4
    /\ \A c \in 1..Len(log_chunks) :
           (Cardinality(AttemptsOn(c)) = 4 /\ \A k \in AttemptsOn(c) : attempts[k][2] = "Err")
               => /\ opc = "returned"
                  /\ ai_result = Some("Err: failed to process chunk")
                  /\ output_file = NoneOpt
                  /\ \A d \in (c + 1)..Len(log_chunks) : AttemptsOn(d) = {}
    /\ output_file # NoneOpt =>
           \A c \in 1..Len(log_chunks) :
               \E k \in AttemptsOn(c) : attempts[k][2] = "Ok"

\* the first chunk succeeded at its second attempt and the second chunk has
\* failed four times
C29_Witness ==
    /\ Len(log_chunks) = 2
    /\ [k \in 1..Len(attempts) |-> attempts[k][2]]
           = <<"Err", "Ok", "Err", "Err", "Err", "Err">>
    /\ opc = "returned"
    /\ output_file = NoneOpt

\* the listing entry a FileInfo was made from
EntryOf(listing, info) == CHOOSE e \in Range(listing) : e.id = info.id

\* the FileInfo values pushed under a directory
Under(dir) == {k \in 1..Len(files_to_download) : files_to_download[k].path[1] = dir}

\* C22: when validate_deliverable returns Ok, files_to_download holds the
\* instance JSON file under main/ and, under logs/, one log file that is not
\* a folder for each of the four required suffixes; and it returns Err when
\* the link gives no folder ID, when there is no token file, when the target
\* is not a folder, and when the instance JSON, the logs folder or one of
\* the four logs is missing.
C22_CompleteDeliverable ==
    /\ validation = Ok =>
          /\ \E k \in Under("main") :
                LET e == EntryOf(folder_files, files_to_download[k])
                IN  e.name = instance_json_name /\ e.mimeType # FOLDER_MIME
          /\ \A s \in Range(required_suffixes) :
                \E k \in Under("logs") :
                    LET e == EntryOf(log_files, files_to_download[k])
                    IN  /\ ends_with(name_lowercase(e.name), s)
                        /\ e.mimeType # FOLDER_MIME
                        /\ \A j \in Under("logs") \ {k} :
                               ~ends_with(name_lowercase(files_to_download[j].name), s)
    /\ (/\ vpc = "returned"
        /\ \/ extract_drive_folder_id(folder_link) = NoneOpt
           \/ tokens_file = "absent"
           \/ target.mimeType # FOLDER_MIME
           \/ ~has_instance_json(folder_files, instance_json_name)
           \/ logs_folder(folder_files) = NoneOpt
           \/ \E s \in Range(required_suffixes) : ~has_file(log_files, s))
          => validation[1] = "Err"

====
